---- MODULE Spec2Model ----
(***************************************************************************)
(* Model of the order-execution core of PolymarketClobClient               *)
(* (src/src/polymarket_apis/clients/clob_client.py): the per-token         *)
(* metadata caches, tick-size / fee-rate resolution, order construction,   *)
(* market price discovery and order submission.                            *)
(*                                                                         *)
(* Prices and tick sizes are exact decimals, held as integers in units of  *)
(* 1/10000 (One = 1.0).  Every network response is an input of the action  *)
(* that consumes it: the server may answer anything, and may answer        *)
(* differently each time.                                                  *)
(***************************************************************************)
EXTENDS Integers, Sequences, FiniteSets, Bags, TLC

VARIABLES
    tick_sizes,     \* self.__tick_sizes : dict token_id -> TickSize string
    neg_risk,       \* self.__neg_risk   : dict token_id -> bool
    fee_rates,      \* self.__fee_rates  : dict token_id -> int
    call,           \* the last completed operation: what was called, what it did, what came back
    nfetch,         \* per (kind, token_id): metadata requests answered successfully so far
    first,          \* per kind: dict token_id -> the first value ever stored
    inflight        \* async metadata lookups suspended on their request, as a bag of <<kind, token_id>>

VARIABLES
    creds,          \* self.creds : the API key set level-2 requests are signed with
    keysets,        \* the server: per nonce of this signer, the key sets it holds
    issued          \* per nonce: the key sets acquired so far, in the order of the calls

VARIABLES
    pager,          \* the fetch-all operation in progress or last completed, and what the server sent it
    chan            \* the websocket channel the caller holds open: its socket loop or stream generator

caches == <<tick_sizes, neg_risk, fee_rates>>
credVars == <<creds, keysets, issued>>
\* what the credential operations leave alone, besides the caches and their bookkeeping
beyondCreds == <<pager, chan>>
\* what the fetch-all operations leave alone, besides the client's own state
beyondPager == <<chan>>
\* what the metadata, order and book operations leave alone
beyond == <<credVars, beyondCreds>>
clobVars == <<tick_sizes, neg_risk, fee_rates, call, nfetch, first, inflight>>
vars == <<clobVars, beyond>>

\* Python's None is the empty tuple and a value v that may be None is <<v>>,
\* so that an optional string, number or boolean can be compared with None.
None == << >>
Some(v) == <<v>>
Get(o) == o[1]
Opt(S) == {None} \cup {Some(v) : v \in S}

\* A dict is a function on the keys it holds.
EmptyDict == << >>
Put(d, k, v) == [x \in DOMAIN d \cup {k} |-> IF x = k THEN v ELSE d[x]]

----------------------------------------------------------------------------
(* Bounds and input sets *)

MaxFetch == 2       \* nfetch saturates here
MaxTasks == 2       \* async lookups suspended at the same time

One == 10000        \* the price 1.0

Tokens == {"tokA", "tokB"}
Kinds == {"tick", "neg", "fee"}
\* the tokens looked up where blocking and async lookups interleave
AsyncTokens == {"tokA"}

TickSizes == {"0.1", "0.01", "0.001"}

\* values of minimum_tick_size in the body of GET /tick-size
TickBodies == {1000, 100, 10}
\* values of neg_risk in the body of GET /neg-risk
NegBodies == BOOLEAN
\* values of base_fee in the body of GET /fee-rate (None: the key is absent or null)
FeeBodies == Opt({0, 30, 50})
\* fee rates a caller passes
UserFees == Opt({0, 30, 50})

MaxBatch == 2       \* orders in one batch
MaxLevels == 2      \* price levels on one side of a book
MaxConns == 3       \* connections of one channel that are counted
MaxEvents == 2      \* events delivered on one connection that are counted
MaxPages == 4       \* requests of one cursor-based fetch-all
PageSize == 2       \* the page size the fetch-all loops are written for (500 or 300 in the source)
MaxItems == 5       \* items the server holds behind an offset-paged endpoint
MaxAcquire == 3     \* acquisitions of credentials under one nonce
Nonces == {0, 1, 2}    \* the nonces key sets are created under; a nonce of None is the server's 0
MaxOrders == 3      \* signed orders in one post_orders call, and entries in its answer

\* the token orders are placed on
OrderTokens == {"tokA"}
\* limit prices: 0.005, 0.5, 0.505, 0.999
LimitPrices == {50, 5000, 5050, 9990}
\* the whole range of prices, across every boundary of every tick size
AllPrices == {0, 5, 10, 50, 100, 1000, 5000, 5005, 5050, 5500,
              9000, 9900, 9990, 9995, 10000, 10100}
\* the prices of the orders of a batch: 0.005, 0.5
BatchPrices == {50, 5000}
OrderFees == {None, Some(30)}
Options == {None,
            Some([tick_size |-> None, neg_risk |-> Some(TRUE)]),
            Some([tick_size |-> Some("0.001"), neg_risk |-> None]),
            Some([tick_size |-> Some("0.1"), neg_risk |-> None])}
TickOptions == {None} \cup {Some([tick_size |-> Some(t), neg_risk |-> Some(FALSE)]) : t \in TickSizes}
Sides == {"BUY", "SELL"}
Amounts == {10, 25, 31}
\* the amounts of market orders: within the depth of the book, and beyond it
OrderAmounts == {25, 31}
MarketPrices == {None, Some(0), Some(5000)}

\* the books the server answers an order with: the asks (0.40, 10), (0.41, 20)
\* and as much on the bid side, or a book with neither side
OrderBooks ==
    {Some([asks |-> Some(<<[price |-> 4100, size |-> 20], [price |-> 4000, size |-> 10]>>),
           bids |-> Some(<<[price |-> 3800, size |-> 20], [price |-> 3900, size |-> 10]>>)]),
     Some([asks |-> None, bids |-> None])}

\* every book of at most MaxLevels levels a side, at distinct prices, in any order
BookPrices == {4000, 4100, 4200}
BookSizes == {10, 20}
LevelSeqs ==
    {q \in UNION {[1..n -> [price : BookPrices, size : BookSizes]] : n \in 0..MaxLevels} :
        \A i, j \in DOMAIN q : i # j => q[i].price # q[j].price}
AllBooks == {None} \cup {Some(b) : b \in [asks : Opt(LevelSeqs), bids : Opt(LevelSeqs)]}

\* A response is a 2xx with a body, an error status, or no response at all.
Responses(bodies) ==
    [kind : {"ok"}, body : bodies]
        \cup {[kind |-> "status", body |-> None], [kind |-> "transport", body |-> None]}

Min(a, b) == IF a < b THEN a ELSE b

----------------------------------------------------------------------------
(* Conversions *)

\* str() of a tick-size number of the response body
str(n) ==
    CASE n = 1000 -> "0.1"
      [] n = 100  -> "0.01"
      [] n = 10   -> "0.001"

\* float() of a TickSize string
float(s) ==
    CASE s = "0.1"   -> 1000
      [] s = "0.01"  -> 100
      [] s = "0.001" -> 10

\* helpers.is_tick_size_smaller(a, b): a is finer than b
is_tick_size_smaller(a, b) == float(a) < float(b)

\* helpers.price_valid(price, tick_size)
price_valid(price, tick_size) ==
    /\ price % float(tick_size) = 0
    /\ float(tick_size) <= price
    /\ price <= One - float(tick_size)

----------------------------------------------------------------------------
(* Metadata lookups.  Each operator is one call: it takes the cache and    *)
(* the response the request would get, and yields the outcome, the value   *)
(* returned, the cache afterwards and the requests issued.                 *)

Endpoint(kind) ==
    CASE kind = "tick" -> "GET /tick-size"
      [] kind = "neg"  -> "GET /neg-risk"
      [] kind = "fee"  -> "GET /fee-rate"

Req(ep, token_id, response) == [ep |-> ep, tok |-> token_id, status |-> response.kind]

\* the exception a request raises, by its response
Raised(response) == IF response.kind = "status" THEN "HTTPStatusError" ELSE "TransportError"

\* the value a call returned, None when it raised
Returned(res) == IF res.out = "return" THEN Some(res.val) ELSE None

\* what a lookup returned, for the record of first values
Got(kind, token_id, val) ==
    [[kind |-> kind, tok |-> token_id, tick |-> None, neg |-> None, fee |-> None]
        EXCEPT ![kind] = Some(val)]

\* Lookup that stores a default under the token when its fetch fails
Lookup_placeholder(cache, token_id, response, kind, stored) ==
    IF token_id \in DOMAIN cache
    THEN [out |-> "return", val |-> cache[token_id], cache |-> cache, reqs |-> <<>>,
          gots |-> <<Got(kind, token_id, cache[token_id])>>]
    ELSE IF response.kind # "ok"
         THEN [out |-> Raised(response), val |-> None,
               cache |-> Put(cache, token_id,
                             CASE kind = "tick" -> "0.01" [] kind = "neg" -> FALSE
                               [] kind = "fee" -> 0),
               reqs |-> <<Req(Endpoint(kind), token_id, response)>>, gots |-> <<>>]
         ELSE LET c == Put(cache, token_id, stored) IN
              [out |-> "return", val |-> c[token_id], cache |-> c,
               reqs |-> <<Req(Endpoint(kind), token_id, response)>>,
               gots |-> <<Got(kind, token_id, c[token_id])>>]

\* Lookup that fetches on a miss and returns the value without storing it
Lookup_nostore(cache, token_id, response, kind, stored) ==
    IF token_id \in DOMAIN cache
    THEN [out |-> "return", val |-> cache[token_id], cache |-> cache, reqs |-> <<>>,
          gots |-> <<Got(kind, token_id, cache[token_id])>>]
    ELSE IF response.kind # "ok"
         THEN [out |-> Raised(response), val |-> None, cache |-> cache,
               reqs |-> <<Req(Endpoint(kind), token_id, response)>>, gots |-> <<>>]
         ELSE [out |-> "return", val |-> stored, cache |-> cache,
               reqs |-> <<Req(Endpoint(kind), token_id, response)>>,
               gots |-> <<Got(kind, token_id, stored)>>]

Lookup(cache, token_id, response, kind, stored) ==
    IF token_id \in DOMAIN cache
    THEN [out |-> "return", val |-> cache[token_id], cache |-> cache, reqs |-> <<>>,
          gots |-> <<Got(kind, token_id, cache[token_id])>>]
    ELSE IF response.kind # "ok"
         THEN [out |-> Raised(response), val |-> None, cache |-> cache,
               reqs |-> <<Req(Endpoint(kind), token_id, response)>>, gots |-> <<>>]
         ELSE LET c == Put(cache, token_id, stored) IN
              [out |-> "return", val |-> c[token_id], cache |-> c,
               reqs |-> <<Req(Endpoint(kind), token_id, response)>>,
               gots |-> <<Got(kind, token_id, c[token_id])>>]

get_tick_size(cache, token_id, response) ==
    Lookup(cache, token_id, response, "tick",
           IF response.kind = "ok" THEN str(response.body) ELSE None)

get_neg_risk(cache, token_id, response) ==
    Lookup(cache, token_id, response, "neg", response.body)

get_fee_rate_bps(cache, token_id, response) ==
    Lookup(cache, token_id, response, "fee",
           IF response.body = None THEN 0 ELSE Get(response.body))

\* resolve_tick_size with the arguments of the comparison exchanged
resolve_tick_size_swapped(cache, token_id, tick_size, response) ==
    LET g == get_tick_size(cache, token_id, response) IN
    IF g.out # "return" THEN g
    ELSE IF tick_size # None
         THEN IF is_tick_size_smaller(g.val, Get(tick_size))
              THEN [g EXCEPT !.out = "InvalidTickSizeError", !.val = None]
              ELSE [g EXCEPT !.val = Get(tick_size)]
         ELSE g

resolve_tick_size(cache, token_id, tick_size, response) ==
    LET g == get_tick_size(cache, token_id, response) IN
    IF g.out # "return" THEN g
    ELSE IF tick_size # None
         THEN IF is_tick_size_smaller(Get(tick_size), g.val)
              THEN [g EXCEPT !.out = "InvalidTickSizeError", !.val = None]
              ELSE [g EXCEPT !.val = Get(tick_size)]
         ELSE g

\* resolve_fee_rate that does not let a caller rate of zero through
resolve_fee_rate_nozero(cache, token_id, user_fee_rate, response) ==
    LET g == get_fee_rate_bps(cache, token_id, response) IN
    IF g.out # "return" THEN g
    ELSE IF /\ g.val > 0
            /\ user_fee_rate # None
            /\ Get(user_fee_rate) # g.val
         THEN [g EXCEPT !.out = "InvalidFeeRateError", !.val = None]
         ELSE g

resolve_fee_rate(cache, token_id, user_fee_rate, response) ==
    LET g == get_fee_rate_bps(cache, token_id, response) IN
    IF g.out # "return" THEN g
    ELSE IF /\ g.val > 0
            /\ user_fee_rate # None
            /\ Get(user_fee_rate) > 0
            /\ Get(user_fee_rate) # g.val
         THEN [g EXCEPT !.out = "InvalidFeeRateError", !.val = None]
         ELSE g

----------------------------------------------------------------------------
(* Orders.  An order intent (OrderArgs, MarketOrderArgs) is a record       *)
(* [token_id, side, amount, price, fee_rate_bps]; price is None where a    *)
(* market order leaves it out, fee_rate_bps is None where the caller       *)
(* passes none.  options is None or Some([tick_size, neg_risk]).           *)
(*                                                                         *)
(* The progress of one call is a record: the outcome so far, the caches,   *)
(* the requests sent, the caller's order_args as the call has left it, and *)
(* what was handed to the signer.  An operation that makes requests yields *)
(* the set of the records it can end in, over every answer to each request *)
(* it makes.                                                               *)

Start(ts, nr, fr, order_args) ==
    [out |-> "return", ts |-> ts, nr |-> nr, fr |-> fr, reqs |-> <<>>, gots |-> <<>>,
     order_args |-> order_args, signed |-> <<>>,
     tick |-> None, neg |-> None, fee |-> None, book |-> None,
     args_after |-> <<>>, posted |-> None, logs |-> <<>>, failed |-> 0]

\* the next statement runs only when nothing was raised so far
Then(S, next(_)) == UNION {IF s.out = "return" THEN next(s) ELSE {s} : s \in S}

\* tick_size = self.__resolve_tick_size(order_args.token_id, options.tick_size if options else None)
TickStep(s, options) ==
    {LET t == resolve_tick_size(s.ts, s.order_args.token_id,
                                IF options # None THEN Get(options).tick_size ELSE None, rt)
     IN  [s EXCEPT !.out = t.out, !.ts = t.cache, !.reqs = @ \o t.reqs,
                   !.gots = @ \o t.gots, !.tick = Returned(t)]
     : rt \in Responses(TickBodies)}

\* PriceStep that validates against the market's minimum tick size, not the resolved one
PriceStep_market(s) ==
    {IF price_valid(Get(s.order_args.price), s.ts[s.order_args.token_id]) THEN s
     ELSE [s EXCEPT !.out = "InvalidPriceError"]}

\* if not price_valid(order_args.price, tick_size): raise InvalidPriceError
PriceStep(s) ==
    {IF price_valid(Get(s.order_args.price), Get(s.tick)) THEN s
     ELSE [s EXCEPT !.out = "InvalidPriceError"]}

\* neg_risk = options.neg_risk if options and options.neg_risk is not None
\*            else self.get_neg_risk(order_args.token_id)
NegStep(s, options) ==
    IF options # None /\ Get(options).neg_risk # None
    THEN {[s EXCEPT !.neg = Get(options).neg_risk]}
    ELSE {LET n == get_neg_risk(s.nr, s.order_args.token_id, rn)
          IN  [s EXCEPT !.out = n.out, !.nr = n.cache, !.reqs = @ \o n.reqs,
                        !.gots = @ \o n.gots, !.neg = Returned(n)]
          : rn \in Responses(NegBodies)}

\* fee_rate_bps = self.__resolve_fee_rate(order_args.token_id, order_args.fee_rate_bps)
\* order_args.fee_rate_bps = fee_rate_bps
FeeStep(s) ==
    {LET f == resolve_fee_rate(s.fr, s.order_args.token_id, s.order_args.fee_rate_bps, rf)
     IN  [s EXCEPT !.out = f.out, !.fr = f.cache, !.reqs = @ \o f.reqs,
                   !.gots = @ \o f.gots, !.fee = Returned(f),
                   !.order_args.fee_rate_bps = IF f.out = "return" THEN Some(f.val) ELSE @]
     : rf \in Responses(FeeBodies)}

\* OrderBuilder.create_order / create_market_order: what the signer is given
SignerInput(method, order_args, tick_size, neg) ==
    [idx |-> 1, method |-> method, token_id |-> order_args.token_id,
     side |-> order_args.side, amount |-> order_args.amount,
     price |-> order_args.price, fee_rate_bps |-> order_args.fee_rate_bps,
     tick_size |-> tick_size, neg_risk |-> neg]

\* return self.builder.create_order(order_args, CreateOrderOptions(tick_size, neg_risk))
SignStep(s, method) ==
    {[s EXCEPT !.signed = @ \o <<SignerInput(method, s.order_args, s.tick, s.neg)>>]}

\* create_order that does not validate the price
create_order_unvalidated(ts, nr, fr, order_args, options) ==
    LET tick(s) == TickStep(s, options)
        neg(s) == NegStep(s, options)
        fee(s) == FeeStep(s)
        sign(s) == SignStep(s, "create_order")
    IN  Then(Then(Then(tick(Start(ts, nr, fr, order_args)), neg), fee), sign)

create_order(ts, nr, fr, order_args, options) ==
    LET tick(s) == TickStep(s, options)
        price(s) == PriceStep(s)
        neg(s) == NegStep(s, options)
        fee(s) == FeeStep(s)
        sign(s) == SignStep(s, "create_order")
    IN  Then(Then(Then(Then(tick(Start(ts, nr, fr, order_args)), price), neg), fee), sign)

----------------------------------------------------------------------------
(* Market price discovery *)

\* An order book holds asks and bids, each None or a sequence of levels
\* [price, size] in the order the server sent them.
Level(price, size) == [price |-> price, size |-> size]

\* OrderBuilder.calculate_buy_market_price / calculate_sell_market_price: walk
\* the levels from the best price for the taker (asks ascending, bids
\* descending), adding up size, to the first level where the sum reaches amount.
RECURSIVE Walk(_, _, _, _, _)
Walk(levels, rest, sum, amount, ascending) ==
    IF rest = {} THEN [out |-> "LiquidityError", val |-> None]
    ELSE LET i == CHOOSE i \in rest : \A j \in rest :
                    IF ascending THEN levels[i].price <= levels[j].price
                    ELSE levels[i].price >= levels[j].price
             reached == sum + levels[i].size
         IN  IF reached >= amount THEN [out |-> "return", val |-> levels[i].price]
             ELSE Walk(levels, rest \ {i}, reached, amount, ascending)

calculate_buy_market_price(asks, amount) == Walk(asks, DOMAIN asks, 0, amount, TRUE)

calculate_sell_market_price(bids, amount) == Walk(bids, DOMAIN bids, 0, amount, FALSE)

\* get_order_book: a 2xx body is parsed into an OrderBookSummary, which a null body is not
get_order_book(token_id, response) ==
    LET reqs == <<Req("GET /book", token_id, response)>> IN
    IF response.kind # "ok" THEN [out |-> Raised(response), val |-> None, reqs |-> reqs]
    ELSE IF response.body = None THEN [out |-> "TypeError", val |-> None, reqs |-> reqs]
    ELSE [out |-> "return", val |-> response.body, reqs |-> reqs]

\* calculate_market_price that walks the taker's own side of the book
calculate_market_price_sameside(token_id, side, amount, response) ==
    LET b == get_order_book(token_id, response)
        fail(e) == [out |-> e, val |-> None, reqs |-> b.reqs, book |-> b.val]
        done(w) == [out |-> w.out, val |-> w.val, reqs |-> b.reqs, book |-> b.val]
    IN  IF b.out # "return" THEN fail(b.out)
        ELSE IF b.val = None THEN fail("MissingOrderbookError")
        ELSE IF side = "SELL"
             THEN IF Get(b.val).asks = None THEN fail("LiquidityError")
                  ELSE done(calculate_buy_market_price(Get(Get(b.val).asks), amount))
        ELSE IF side = "BUY"
             THEN IF Get(b.val).bids = None THEN fail("LiquidityError")
                  ELSE done(calculate_sell_market_price(Get(Get(b.val).bids), amount))
        ELSE fail("ValueError")

calculate_market_price(token_id, side, amount, response) ==
    LET b == get_order_book(token_id, response)
        fail(e) == [out |-> e, val |-> None, reqs |-> b.reqs, book |-> b.val]
        done(w) == [out |-> w.out, val |-> w.val, reqs |-> b.reqs, book |-> b.val]
    IN  IF b.out # "return" THEN fail(b.out)
        ELSE IF b.val = None THEN fail("MissingOrderbookError")
        ELSE IF side = "BUY"
             THEN IF Get(b.val).asks = None THEN fail("LiquidityError")
                  ELSE done(calculate_buy_market_price(Get(Get(b.val).asks), amount))
        ELSE IF side = "SELL"
             THEN IF Get(b.val).bids = None THEN fail("LiquidityError")
                  ELSE done(calculate_sell_market_price(Get(Get(b.val).bids), amount))
        ELSE fail("ValueError")

\* MarketPriceStep that writes a price into order_args before the price is known
MarketPriceStep_early(s) ==
    IF s.order_args.price = None \/ Get(s.order_args.price) <= 0
    THEN {LET m == calculate_market_price(s.order_args.token_id, s.order_args.side,
                                          s.order_args.amount, rb)
          IN  [s EXCEPT !.out = m.out, !.reqs = @ \o m.reqs, !.book = m.book,
                        !.order_args.price = IF m.out = "return" THEN Some(m.val) ELSE Some(0)]
          : rb \in Responses(OrderBooks)}
    ELSE {s}

\* MarketPriceStep that prices every market order from the book
MarketPriceStep_always(s) ==
    {LET m == calculate_market_price(s.order_args.token_id, s.order_args.side,
                                     s.order_args.amount, rb)
     IN  [s EXCEPT !.out = m.out, !.reqs = @ \o m.reqs, !.book = m.book,
                   !.order_args.price = IF m.out = "return" THEN Some(m.val) ELSE @]
     : rb \in Responses(OrderBooks)}

\* if order_args.price is None or order_args.price <= 0:
\*     order_args.price = self.calculate_market_price(...)
MarketPriceStep(s) ==
    IF s.order_args.price = None \/ Get(s.order_args.price) <= 0
    THEN {LET m == calculate_market_price(s.order_args.token_id, s.order_args.side,
                                          s.order_args.amount, rb)
          IN  [s EXCEPT !.out = m.out, !.reqs = @ \o m.reqs, !.book = m.book,
                        !.order_args.price = IF m.out = "return" THEN Some(m.val) ELSE @]
          : rb \in Responses(OrderBooks)}
    ELSE {s}

\* create_market_order that resolves the neg-risk flag and the fee rate before
\* it validates the price
create_market_order_latecheck(ts, nr, fr, order_args, options) ==
    LET tick(s) == TickStep(s, options)
        market(s) == MarketPriceStep(s)
        price(s) == PriceStep(s)
        neg(s) == NegStep(s, options)
        fee(s) == FeeStep(s)
        sign(s) == SignStep(s, "create_market_order")
    IN  Then(Then(Then(Then(Then(tick(Start(ts, nr, fr, order_args)),
            market), neg), fee), price), sign)

create_market_order(ts, nr, fr, order_args, options) ==
    LET tick(s) == TickStep(s, options)
        market(s) == MarketPriceStep(s)
        price(s) == PriceStep(s)
        neg(s) == NegStep(s, options)
        fee(s) == FeeStep(s)
        sign(s) == SignStep(s, "create_market_order")
    IN  Then(Then(Then(Then(Then(tick(Start(ts, nr, fr, order_args)),
            market), price), neg), fee), sign)

----------------------------------------------------------------------------
(* Submission *)

\* The answer to a POST: a 2xx whose body is one entry (POST /order) or a list
\* of entries (POST /orders), each entry the errorMsg of an OrderPostResponse;
\* or an error status with a body of some shape; or no answer at all.
ErrorBodies == {"json with error", "json without error", "not json"}
Msgs == {"", "rejected"}

PostResponses(lens) ==
    [kind : {"ok"}, error_body : {""}, entries : UNION {[1..n -> Msgs] : n \in lens}]
        \cup [kind : {"status"}, error_body : ErrorBodies, entries : {<<>>}]
        \cup {[kind |-> "transport", error_body |-> "", entries |-> <<>>]}

\* except httpx.HTTPStatusError as exc: logger.warning(msg);
\*     error_json = exc.response.json(); print("Details:", error_json["error"]); return None
on_status_error(response, reqs) ==
    IF response.error_body = "not json"
    THEN [out |-> "JSONDecodeError", val |-> None, reqs |-> reqs, logs |-> <<"warning">>]
    ELSE IF response.error_body = "json without error"
    THEN [out |-> "KeyError", val |-> None, reqs |-> reqs, logs |-> <<"warning">>]
    ELSE [out |-> "return", val |-> None, reqs |-> reqs, logs |-> <<"warning", "print">>]

post_order(order, response) ==
    LET reqs == <<Req("POST /order", order.token_id, response)>> IN
    IF response.kind = "transport"
    THEN [out |-> "TransportError", val |-> None, reqs |-> reqs, logs |-> <<>>]
    ELSE IF response.kind = "status" THEN on_status_error(response, reqs)
    ELSE [out |-> "return", val |-> Some(response.entries), reqs |-> reqs, logs |-> <<>>]

\* post_orders that stops at the first entry carrying an error message
post_orders_abort(orders, response) ==
    LET reqs == <<Req("POST /orders", "", response)>>
        bad == {j \in DOMAIN response.entries : response.entries[j] # ""}
        upto == IF bad = {} THEN Len(response.entries)
                ELSE CHOOSE j \in bad : \A l \in bad : j <= l
    IN  IF response.kind = "transport"
        THEN [out |-> "TransportError", val |-> None, reqs |-> reqs, logs |-> <<>>]
        ELSE IF response.kind = "status" THEN on_status_error(response, reqs)
        ELSE [out |-> "return", val |-> Some(SubSeq(response.entries, 1, upto)), reqs |-> reqs,
              logs |-> IF bad = {} THEN <<>> ELSE <<"warning">>]

post_orders(orders, response) ==
    LET reqs == <<Req("POST /orders", "", response)>> IN
    IF response.kind = "transport"
    THEN [out |-> "TransportError", val |-> None, reqs |-> reqs, logs |-> <<>>]
    ELSE IF response.kind = "status" THEN on_status_error(response, reqs)
    ELSE [out |-> "return", val |-> Some(response.entries), reqs |-> reqs,
          logs |-> [i \in 1..Cardinality({j \in DOMAIN response.entries :
                                            response.entries[j] # ""}) |-> "warning"]]

PostStep(s) ==
    {LET r == post_order(s.signed[1], rp)
     IN  [s EXCEPT !.out = r.out, !.reqs = @ \o r.reqs, !.posted = r.val, !.logs = @ \o r.logs]
     : rp \in PostResponses({1})}

PostAllStep(s) ==
    {LET r == post_orders(s.signed, rp)
     IN  [s EXCEPT !.out = r.out, !.reqs = @ \o r.reqs, !.posted = r.val, !.logs = @ \o r.logs]
     : rp \in PostResponses(0..MaxBatch)}

create_and_post_order(ts, nr, fr, order_args, options) ==
    Then(create_order(ts, nr, fr, order_args, options), PostStep)

create_and_post_market_order(ts, nr, fr, order_args, options) ==
    Then(create_market_order(ts, nr, fr, order_args, options), PostStep)

\* self.create_order(order_args) for the order at position i of the batch
CreateAt(s, order_args, i) ==
    {[s EXCEPT !.out = r.out, !.ts = r.ts, !.nr = r.nr, !.fr = r.fr,
               !.reqs = @ \o r.reqs, !.gots = @ \o r.gots,
               !.tick = r.tick, !.neg = r.neg, !.fee = r.fee,
               !.signed = @ \o [j \in DOMAIN r.signed |-> [r.signed[j] EXCEPT !.idx = i]],
               !.args_after = Append(@, r.order_args),
               !.failed = IF r.out = "return" THEN 0 ELSE i]
     : r \in create_order(s.ts, s.nr, s.fr, order_args, None)}

\* [PostOrdersArgs(order=self.create_order(order_args), ...) for order_args, ... in zip(args, ...)]
RECURSIVE CreateAll(_, _, _)
CreateAll(S, args, i) ==
    IF i > Len(args) THEN S
    ELSE CreateAll(Then(S, LAMBDA s : CreateAt(s, args[i], i)), args, i + 1)

create_and_post_orders(ts, nr, fr, args) ==
    Then(CreateAll({Start(ts, nr, fr, None)}, args, 1), PostAllStep)

----------------------------------------------------------------------------
(* Bookkeeping shared by every action *)

Answered(reqs, kind, k) ==
    Cardinality({i \in DOMAIN reqs :
        reqs[i].ep = Endpoint(kind) /\ reqs[i].tok = k /\ reqs[i].status = "ok"})

Cache(kind) ==
    CASE kind = "tick" -> tick_sizes
      [] kind = "neg"  -> neg_risk
      [] kind = "fee"  -> fee_rates

\* the positions of gots that are lookups of (kind, k)
GotAt(gots, kind, k) == {i \in DOMAIN gots : gots[i].kind = kind /\ gots[i].tok = k}

\* nfetch and first after an operation that issued reqs and whose lookups returned gots
Account(reqs, gots) ==
    /\ nfetch' = [kind \in Kinds |-> [k \in Tokens |->
                    Min(nfetch[kind][k] + Answered(reqs, kind, k), MaxFetch)]]
    /\ first' = [kind \in Kinds |->
                    LET new == {k \in Tokens : GotAt(gots, kind, k) # {}} IN
                    [k \in DOMAIN first[kind] \cup new |->
                        IF k \in DOMAIN first[kind] THEN first[kind][k]
                        ELSE LET I == GotAt(gots, kind, k) IN
                             Get(gots[CHOOSE i \in I : \A j \in I : i <= j][kind])]]

----------------------------------------------------------------------------
(* API credentials.  The server holds the key sets of this signer by nonce: *)
(* a create answers with a new key set when it holds none for the nonce and *)
(* with a conflict when it holds one; a derive answers with the one it      *)
(* holds.  Either request may instead fail for a reason of its own.         *)

\* a key set {key, secret, passphrase}, by the nonce and the order of its creation
KeySet(nonce, serial) == [nonce |-> nonce, serial |-> serial]

\* the key set a caller passes to the constructor or to set_api_creds
SuppliedCreds == KeySet(0, 0)

\* how a request can fail whatever the server holds: an error status, no answer
Faults == {"status", "transport"}

CredReq(ep, nonce, status) == [ep |-> ep, tok |-> "", status |-> status]

CredFail(ks, reqs, status) ==
    [out |-> IF status = "transport" THEN "TransportError" ELSE "HTTPStatusError",
     val |-> None, ks |-> ks, reqs |-> reqs]

\* headers = create_level_1_headers(self.signer, nonce); response = self.http.post(CREATE_API_KEY)
\* response.raise_for_status(); return ApiCreds(**response.json())
create_api_creds(ks, nonce, fault) ==
    LET req(status) == <<CredReq("POST /auth/api-key", nonce, status)>> IN
    IF fault \in Faults THEN CredFail(ks, req(fault), fault)
    ELSE IF ks[nonce] # <<>> THEN CredFail(ks, req("conflict"), "conflict")
    ELSE LET new == KeySet(nonce, Len(ks[nonce]) + 1)
         IN  [out |-> "return", val |-> Some(new),
              ks |-> [ks EXCEPT ![nonce] = Append(@, new)], reqs |-> req("ok")]

\* response = self.http.get(DERIVE_API_KEY); response.raise_for_status(); return ApiCreds(...)
derive_api_key(ks, nonce, fault) ==
    LET req(status) == <<CredReq("GET /auth/derive-api-key", nonce, status)>> IN
    IF fault \in Faults THEN CredFail(ks, req(fault), fault)
    ELSE IF ks[nonce] = <<>> THEN CredFail(ks, req("status"), "status")
    ELSE [out |-> "return", val |-> Some(ks[nonce][1]), ks |-> ks, reqs |-> req("ok")]

\* create_or_derive_api_creds without the fallback
create_or_derive_api_creds_nofallback(ks, nonce, fault1, fault2) ==
    create_api_creds(ks, nonce, fault1)

\* try: return self.create_api_creds(nonce)
\* except HTTPStatusError: return self.derive_api_key(nonce)
create_or_derive_api_creds(ks, nonce, fault1, fault2) ==
    LET c == create_api_creds(ks, nonce, fault1) IN
    IF c.out # "HTTPStatusError" THEN c
    ELSE LET d == derive_api_key(c.ks, nonce, fault2)
         IN  [d EXCEPT !.reqs = c.reqs \o @]

----------------------------------------------------------------------------
(* Fetch-all operations.  A fetch-all is a loop of requests; the record    *)
(* `pager` holds where the loop stands, every cursor and offset it has     *)
(* requested, every page the server sent and the items collected.          *)

END_CURSOR == "LTE="            \* base64 of -1
Cursors == {"MA==", "MQ==", "Mg=="}   \* base64 of 0, 1, 2
CursorOps == {"get_orders", "get_trades", "get_all_markets", "get_reward_markets"}
OffsetOps == {"get_all_events", "get_all_teams", "get_all_tags", "get_all_series"}
\* the limit a caller passes through kwargs, None when it passes none
Limits == Opt(1..(PageSize + 1))

BlankPager ==
    [op |-> "", out |-> "idle",
     arg |-> None,              \* the next_cursor argument, None when the caller passes none
     cursor |-> "",             \* next_cursor, the cursor the next request carries
     offset |-> 0,              \* offset, the offset the next request carries
     limit |-> None,            \* the limit passed through kwargs
     total |-> 0,               \* the items the server holds, numbered 1..total
     cursors |-> <<>>,          \* the cursors requested, in order
     offsets |-> <<>>,          \* the offsets requested, in order
     served |-> <<>>,           \* the pages answered, in order: [data, next]
     results |-> <<>>]          \* the items collected

\* items first..last, in order
Items(lo, hi) == [i \in 1..(IF hi >= lo THEN hi - lo + 1 ELSE 0) |-> lo + i - 1]

RECURSIVE Flatten(_)
Flatten(pages) ==
    IF pages = <<>> THEN <<>> ELSE pages[1].data \o Flatten(Tail(pages))

\* the answers of a cursor-paged endpoint: a page of new items and any next
\* cursor, or a failure
CursorAnswers(sofar) ==
    [kind : {"ok"}, data : {Items(sofar + 1, sofar + n) : n \in 0..PageSize},
     next : Cursors \cup {END_CURSOR}]
        \cup [kind : {"status", "transport"}, data : {<<>>}, next : {""}]

\* one turn of the loop that drops the items of the page carrying the sentinel
cursor_page_droplast(p, response) ==
    IF response.kind # "ok"
    THEN [p EXCEPT !.out = Raised(response), !.cursors = Append(@, p.cursor)]
    ELSE [p EXCEPT !.cursor = response.next,
                   !.cursors = Append(@, p.cursor),
                   !.served = Append(@, [data |-> response.data, next |-> response.next]),
                   !.results = IF response.next = END_CURSOR THEN @ ELSE @ \o response.data,
                   !.out = IF response.next = END_CURSOR THEN "return" ELSE "running"]

\* while next_cursor != END_CURSOR:
\*     params["next_cursor"] = next_cursor; response = self.http.get(...)
\*     response.raise_for_status()
\*     next_cursor = response.json()["next_cursor"]; results += [... response.json()["data"]]
\* return results
cursor_page(p, response) ==
    IF response.kind # "ok"
    THEN [p EXCEPT !.out = Raised(response), !.cursors = Append(@, p.cursor)]
    ELSE [p EXCEPT !.cursor = response.next,
                   !.cursors = Append(@, p.cursor),
                   !.served = Append(@, [data |-> response.data, next |-> response.next]),
                   !.results = @ \o response.data,
                   !.out = IF response.next = END_CURSOR THEN "return" ELSE "running"]

\* results = []; next_cursor = next_cursor if next_cursor is not None else "MA=="
StartCursor(op, next_cursor) ==
    /\ pager.out # "running"
    /\ LET c == IF next_cursor # None THEN Get(next_cursor) ELSE "MA==" IN
       pager' = [BlankPager EXCEPT !.op = op, !.arg = next_cursor, !.cursor = c,
                                   !.out = IF c = END_CURSOR THEN "return" ELSE "running"]
    /\ UNCHANGED <<clobVars, credVars, beyondPager>>

CursorPage ==
    /\ pager.op \in CursorOps
    /\ pager.out = "running"
    /\ Len(pager.cursors) < MaxPages
    /\ \E response \in CursorAnswers(Len(pager.results)) :
        pager' = cursor_page(pager, response)
    /\ UNCHANGED <<clobVars, credVars, beyondPager>>

\* the answer to GET ?limit=&offset= of a server holding items 1..total
OffsetAnswer(total, limit, offset) == Items(offset + 1, Min(offset + limit, total))

\* part = self.get_events(offset=offset, **kwargs); events.extend(part)
\* if len(part) < 500: break
\* offset += 500
offset_page(p, response) ==
    IF response.kind # "ok"
    THEN [p EXCEPT !.out = Raised(response), !.offsets = Append(@, p.offset)]
    ELSE LET part == OffsetAnswer(p.total, IF p.limit = None THEN PageSize ELSE Get(p.limit),
                                  p.offset)
         IN  [p EXCEPT !.offsets = Append(@, p.offset),
                       !.served = Append(@, [data |-> part, next |-> ""]),
                       !.results = @ \o part,
                       !.offset = IF Len(part) < PageSize THEN @ ELSE @ + PageSize,
                       !.out = IF Len(part) < PageSize THEN "return" ELSE "running"]

\* offset = 0; events = []
StartOffset(op, limit, total) ==
    /\ pager.out # "running"
    /\ pager' = [BlankPager EXCEPT !.op = op, !.out = "running", !.limit = limit,
                                   !.total = total]
    /\ UNCHANGED <<clobVars, credVars, beyondPager>>

OffsetPage ==
    /\ pager.op \in OffsetOps
    /\ pager.out = "running"
    /\ \E kind \in {"ok", "status", "transport"} :
        pager' = offset_page(pager, [kind |-> kind])
    /\ UNCHANGED <<clobVars, credVars, beyondPager>>

----------------------------------------------------------------------------
(* Websocket channels.  A socket (lomond, persist) or a stream (websockets) *)
(* is a loop over connections: on each connection it sends its handshake    *)
(* and then hands every inbound message to the processor or the consumer.   *)

Sockets == {"market_socket", "user_socket", "live_data_socket"}
Streams == {"amarket_stream", "auser_stream", "alive_data_stream"}
LiveData == {"live_data_socket", "alive_data_stream"}
Topics == {"activity", "clob_user"}

\* creds.model_dump(by_alias=...)
model_dump(c, by_alias) == [creds |-> c, by_alias |-> by_alias]

\* a subscription dict, with its clob_auth entry when it has one
Sub(topic) == [topic |-> topic, clob_auth |-> None]

\* the subscription lists a caller passes
SubLists == {<<Sub("activity")>>, <<Sub("clob_user")>>, <<Sub("activity"), Sub("clob_user")>>}

\* an inbound text frame, by what the code can tell about it
Frames == {"event",         \* a JSON object of a known event type whose fields validate
           "unknown",       \* a JSON object of a type without a case
           "untyped",       \* a JSON object with no event_type / type key
           "invalid",       \* a JSON object of a known event type whose fields do not validate
           "list",          \* a JSON list of valid book objects
           "not json"}      \* text that is not JSON

BlankChan ==
    [api |-> "", state |-> "closed", out |-> "",
     parse |-> TRUE,            \* the parse argument of a stream
     creds |-> None,            \* the creds argument
     requested |-> <<>>,        \* the caller's own subscription dicts, as they are now
     subscriptions |-> <<>>,    \* the local variable subscriptions
     handshake |-> <<>>,        \* the handshakes sent on the current connection
     first |-> <<>>,            \* the handshake sent on the first connection
     conns |-> 0,               \* connections established so far
     frame |-> "",              \* the last inbound frame
     seen |-> "",               \* what the caller got of it: printed by the processor, or yielded
     events |-> 0]              \* frames handed over on the current connection

NoHandshake == [assets_ids |-> <<>>, auth |-> None, action |-> "", subscriptions |-> <<>>]

needs_auth(subscriptions) == \E i \in DOMAIN subscriptions : subscriptions[i].topic = "clob_user"

\* with_creds that adds clob_auth to every subscription
with_creds_all(subscriptions, c) ==
    [i \in DOMAIN subscriptions |->
        [subscriptions[i] EXCEPT !.clob_auth = Some(model_dump(c, FALSE))]]

\* for sub in subscriptions: a copy with clob_auth = creds.model_dump() for the
\* clob_user topic, the subscription itself for any other
with_creds(subscriptions, c) ==
    [i \in DOMAIN subscriptions |->
        IF subscriptions[i].topic = "clob_user"
        THEN [subscriptions[i] EXCEPT !.clob_auth = Some(model_dump(c, FALSE))]
        ELSE subscriptions[i]]

\* the handshake of a channel, from its arguments and local variables
Payload(ch) ==
    CASE ch.api \in {"market_socket", "amarket_stream"} ->
            [NoHandshake EXCEPT !.assets_ids = <<"tokA", "tokB">>]
      [] ch.api \in {"user_socket", "auser_stream"} ->
            [NoHandshake EXCEPT !.auth = Some(model_dump(Get(ch.creds), TRUE))]
      [] ch.api \in LiveData ->
            [NoHandshake EXCEPT !.action = "subscribe", !.subscriptions = ch.subscriptions]

\* the call: the arguments are bound and, in alive_data_stream, checked and
\* the creds injected before the first connection
open_channel(api, c, subscriptions, parse) ==
    LET ch == [BlankChan EXCEPT !.api = api, !.creds = c, !.parse = parse,
                                !.requested = subscriptions,
                                !.subscriptions = subscriptions, !.state = "connecting"]
    IN  IF api = "alive_data_stream" /\ needs_auth(subscriptions)
        THEN IF c = None
             THEN [ch EXCEPT !.state = "stopped", !.out = "AuthenticationRequiredError"]
             ELSE [ch EXCEPT !.subscriptions = with_creds(subscriptions, Get(c))]
        ELSE ch

\* a connection is established: the next ws of websockets.connect, the next
\* "ready" of persist
connected(ch) ==
    [ch EXCEPT !.state = "ready", !.handshake = <<>>, !.events = 0,
               !.conns = Min(@ + 1, MaxConns)]

Sent(ch, payload) ==
    [ch EXCEPT !.state = "subscribed", !.handshake = Append(@, payload),
               !.first = IF @ = <<>> THEN <<payload>> ELSE @]

\* on_ready that subscribes on the first connection only
on_ready_once(ch) ==
    IF ch.first = <<>> THEN Sent(ch, Payload(ch)) ELSE [ch EXCEPT !.state = "subscribed"]

\* if event.name == "ready": websocket.send_json(...)   /   await ws.send(json.dumps(...))
on_ready(ch) ==
    IF ch.api = "live_data_socket" /\ needs_auth(ch.subscriptions)
    THEN IF ch.creds = None
         THEN [ch EXCEPT !.state = "stopped", !.out = "AuthenticationRequiredError"]
         ELSE LET injected == [ch EXCEPT !.subscriptions = with_creds(@, Get(ch.creds))]
              IN  Sent(injected, Payload(injected))
    ELSE Sent(ch, Payload(ch))

\* the exception a frame raises out of the loop, "" when the frame is handed over
on_text(api, parse, frame) ==
    CASE api \in Streams /\ ~parse -> ""
      [] api = "amarket_stream" -> IF frame = "invalid" THEN "ValidationError" ELSE ""
      [] api \in {"auser_stream", "alive_data_stream"} ->
            IF frame = "invalid" THEN "ValidationError"
            ELSE IF frame = "list" THEN "AttributeError" ELSE ""
      [] api = "market_socket" -> IF frame = "untyped" THEN "KeyError" ELSE ""
      [] api \in {"user_socket", "live_data_socket"} ->
            IF frame = "untyped" THEN "KeyError"
            ELSE IF frame = "list" THEN "TypeError" ELSE ""

\* what the caller gets of a frame that raises nothing: the typed event, the
\* untyped payload, the raw text, the validation errors, or nothing at all
handed(api, parse, frame) ==
    CASE frame = "not json" -> "raw text"
      [] api \in Streams /\ ~parse -> "payload"
      [] frame \in {"event", "list"} -> "typed"
      [] frame = "invalid" -> "errors"
      [] frame = "unknown" /\ api = "user_socket" -> "nothing"
      [] OTHER -> "payload"

received(ch, frame) ==
    LET exc == on_text(ch.api, ch.parse, frame) IN
    IF exc = "" THEN [ch EXCEPT !.events = Min(@ + 1, MaxEvents), !.frame = frame,
                                !.seen = handed(ch.api, ch.parse, frame)]
    ELSE [ch EXCEPT !.state = "stopped", !.out = exc, !.frame = frame, !.seen = ""]

OpenChannel ==
    /\ chan.state = "closed"
    /\ \E api \in Sockets \cup Streams, c \in Opt({SuppliedCreds}), subs \in SubLists,
          parse \in BOOLEAN :
        /\ api \in {"user_socket", "auser_stream"} => c # None
        /\ api \notin LiveData => subs = <<Sub("activity")>>
        /\ api \in {"market_socket", "amarket_stream"} => c = None
        /\ api \in Sockets => parse
        /\ chan' = open_channel(api, c, IF api \in LiveData THEN subs ELSE <<>>, parse)
    /\ UNCHANGED <<clobVars, credVars, pager>>

Connected ==
    /\ chan.state = "connecting"
    /\ chan' = connected(chan)
    /\ UNCHANGED <<clobVars, credVars, pager>>

Ready ==
    /\ chan.state = "ready"
    /\ chan' = on_ready(chan)
    /\ UNCHANGED <<clobVars, credVars, pager>>

Text ==
    /\ chan.state = "subscribed"
    /\ \E frame \in Frames : chan' = received(chan, frame)
    /\ UNCHANGED <<clobVars, credVars, pager>>

\* the connection is lost: except websockets.ConnectionClosed: continue, or
\* persist's next attempt
Dropped ==
    /\ chan.state \in {"ready", "subscribed"}
    /\ chan' = [chan EXCEPT !.state = "connecting"]
    /\ UNCHANGED <<clobVars, credVars, pager>>

----------------------------------------------------------------------------
(* State after construction, and the blocking metadata operations *)

\* The record of an operation.  Every field holds values of one type, and is
\* None where the operation has no such argument or result.
Blank ==
    [op |-> "__init__", tok |-> "", out |-> "return", reqs |-> <<>>,
     tick_size |-> None,        \* the tick size the caller requested
     user_fee_rate |-> None,    \* the fee rate the caller passed
     tick |-> None,             \* the tick size returned
     neg |-> None,              \* the neg-risk flag returned
     fee |-> None,              \* the fee rate returned
     order_args |-> <<>>,       \* the order intents passed, as they were before the call
     after |-> <<>>,            \* the same intents as the call has left them
     options |-> None,          \* the options passed
     side |-> "", amount |-> 0, \* the arguments of calculate_market_price
     book |-> None,             \* the order book fetched
     price |-> None,            \* the price calculate_market_price returned
     signed |-> <<>>,           \* what was handed to the signer, in order
     failed |-> 0,              \* the position in the batch of the order that raised
     posted |-> None,           \* what post_order / post_orders returned
     answer |-> <<>>,           \* the entries of the server's answer to POST /orders
     nonce |-> 0,               \* the nonce passed to a credential operation
     api_creds |-> None,        \* the key set a credential operation returned
     logs |-> <<>>]             \* what was logged and printed

MetaCall(op, k, res) ==
    [Blank EXCEPT !.op = op, !.tok = k, !.out = res.out, !.reqs = res.reqs]

Init ==
    /\ tick_sizes = EmptyDict
    /\ neg_risk = EmptyDict
    /\ fee_rates = EmptyDict
    /\ call = Blank
    /\ nfetch = [kind \in Kinds |-> [k \in Tokens |-> 0]]
    /\ first = [kind \in Kinds |-> EmptyDict]
    /\ inflight = EmptyBag
    /\ creds = Some(SuppliedCreds)
    /\ keysets = [n \in Nonces |-> <<>>]
    /\ issued = [n \in Nonces |-> <<>>]
    /\ pager = BlankPager
    /\ chan = BlankChan

GetTickSize(k) ==
    \E r \in Responses(TickBodies) :
        LET res == get_tick_size(tick_sizes, k, r) IN
        /\ tick_sizes' = res.cache
        /\ call' = [MetaCall("get_tick_size", k, res) EXCEPT !.tick = Returned(res)]
        /\ Account(res.reqs, res.gots)
        /\ UNCHANGED <<neg_risk, fee_rates, inflight, beyond>>

GetNegRisk(k) ==
    \E r \in Responses(NegBodies) :
        LET res == get_neg_risk(neg_risk, k, r) IN
        /\ neg_risk' = res.cache
        /\ call' = [MetaCall("get_neg_risk", k, res) EXCEPT !.neg = Returned(res)]
        /\ Account(res.reqs, res.gots)
        /\ UNCHANGED <<tick_sizes, fee_rates, inflight, beyond>>

GetFeeRateBps(k) ==
    \E r \in Responses(FeeBodies) :
        LET res == get_fee_rate_bps(fee_rates, k, r) IN
        /\ fee_rates' = res.cache
        /\ call' = [MetaCall("get_fee_rate_bps", k, res) EXCEPT !.fee = Returned(res)]
        /\ Account(res.reqs, res.gots)
        /\ UNCHANGED <<tick_sizes, neg_risk, inflight, beyond>>

ResolveTickSize(k) ==
    \E t \in Opt(TickSizes), r \in Responses(TickBodies) :
        LET res == resolve_tick_size(tick_sizes, k, t, r) IN
        /\ tick_sizes' = res.cache
        /\ call' = [MetaCall("resolve_tick_size", k, res) EXCEPT
                        !.tick_size = t, !.tick = Returned(res)]
        /\ Account(res.reqs, res.gots)
        /\ UNCHANGED <<neg_risk, fee_rates, inflight, beyond>>

ResolveFeeRate(k) ==
    \E u \in UserFees, r \in Responses(FeeBodies) :
        LET res == resolve_fee_rate(fee_rates, k, u, r) IN
        /\ fee_rates' = res.cache
        /\ call' = [MetaCall("resolve_fee_rate", k, res) EXCEPT
                        !.user_fee_rate = u, !.fee = Returned(res)]
        /\ Account(res.reqs, res.gots)
        /\ UNCHANGED <<tick_sizes, neg_risk, inflight, beyond>>

----------------------------------------------------------------------------
(* Order operations *)

LimitArgs(k, p, u) ==
    [token_id |-> k, side |-> "BUY", amount |-> 10, price |-> Some(p), fee_rate_bps |-> u]

MarketArgs(k, sd, am, p, u) ==
    [token_id |-> k, side |-> sd, amount |-> am, price |-> p, fee_rate_bps |-> u]

\* the state after an operation that ended in the progress record s
Finish(op, k, args, options, s, after) ==
    /\ tick_sizes' = s.ts
    /\ neg_risk' = s.nr
    /\ fee_rates' = s.fr
    /\ call' = [Blank EXCEPT !.op = op, !.tok = k, !.out = s.out, !.reqs = s.reqs,
                             !.order_args = args, !.after = after, !.options = options,
                             !.tick = s.tick, !.neg = s.neg, !.fee = s.fee,
                             !.book = s.book, !.signed = s.signed, !.failed = s.failed,
                             !.posted = s.posted, !.logs = s.logs]
    /\ Account(s.reqs, s.gots)
    /\ UNCHANGED <<inflight, beyond>>

CreateOrder(k, prices, fees, opts) ==
    \E p \in prices, u \in fees, o \in opts :
        LET a == LimitArgs(k, p, u) IN
        \E s \in create_order(tick_sizes, neg_risk, fee_rates, a, o) :
            Finish("create_order", k, <<a>>, o, s, <<s.order_args>>)

CreateMarketOrder(k) ==
    \E sd \in Sides, am \in OrderAmounts, p \in MarketPrices, u \in OrderFees, o \in Options :
        LET a == MarketArgs(k, sd, am, p, u) IN
        \E s \in create_market_order(tick_sizes, neg_risk, fee_rates, a, o) :
            Finish("create_market_order", k, <<a>>, o, s, <<s.order_args>>)

\* a signed order the caller holds
SomeSigned(k) ==
    SignerInput("create_order", LimitArgs(k, 5000, Some(0)), Some("0.01"), Some(FALSE))

PostOrder(k) ==
    \E rp \in PostResponses({1}) :
        LET r == post_order(SomeSigned(k), rp) IN
        /\ call' = [Blank EXCEPT !.op = "post_order", !.tok = k, !.out = r.out,
                                 !.reqs = r.reqs, !.posted = r.val, !.logs = r.logs]
        /\ UNCHANGED <<caches, nfetch, first, inflight, beyond>>

CreateAndPostOrder(k) ==
    \E p \in LimitPrices, u \in OrderFees, o \in Options :
        LET a == LimitArgs(k, p, u) IN
        \E s \in create_and_post_order(tick_sizes, neg_risk, fee_rates, a, o) :
            Finish("create_and_post_order", k, <<a>>, o, s, <<s.order_args>>)

CreateAndPostMarketOrder(k) ==
    \E sd \in Sides, am \in OrderAmounts, p \in MarketPrices, u \in OrderFees, o \in Options :
        LET a == MarketArgs(k, sd, am, p, u) IN
        \E s \in create_and_post_market_order(tick_sizes, neg_risk, fee_rates, a, o) :
            Finish("create_and_post_market_order", k, <<a>>, o, s, <<s.order_args>>)

CreateAndPostOrders(k) ==
    \E n \in 1..MaxBatch :
        \E args \in [1..n -> {LimitArgs(k, p, u) : p \in BatchPrices, u \in OrderFees}] :
            \E s \in create_and_post_orders(tick_sizes, neg_risk, fee_rates, args) :
                Finish("create_and_post_orders", k, args, None, s,
                       s.args_after \o SubSeq(args, Len(s.args_after) + 1, Len(args)))

\* post_orders on a list of signed orders the caller holds
PostOrders(k) ==
    \E n \in 1..MaxOrders :
        \E prices \in [1..n -> BatchPrices], rp \in PostResponses(0..MaxOrders) :
            LET orders == [i \in 1..n |->
                              [SignerInput("create_order", LimitArgs(k, prices[i], Some(0)),
                                           Some("0.01"), Some(FALSE)) EXCEPT !.idx = i]]
                r == post_orders(orders, rp)
            IN  /\ call' = [Blank EXCEPT !.op = "post_orders", !.tok = k, !.out = r.out,
                                         !.signed = orders, !.reqs = r.reqs, !.posted = r.val,
                                         !.logs = r.logs, !.answer = rp.entries]
                /\ UNCHANGED <<caches, nfetch, first, inflight, beyond>>

\* calculate_market_price on the side and amount the state after Init names
CalculateMarketPrice ==
    /\ call.op = "calculate_market_price"
    /\ call.out = "call"
    /\ \E rb \in Responses(AllBooks) :
        LET m == calculate_market_price(call.tok, call.side, call.amount, rb) IN
        /\ call' = [call EXCEPT !.out = m.out, !.reqs = m.reqs, !.book = m.book,
                                !.price = Returned(m)]
        /\ UNCHANGED <<caches, nfetch, first, inflight, beyond>>

----------------------------------------------------------------------------
(* Credential operations *)

\* create_or_derive_api_creds(nonce): returns the key set, and stores nothing
CreateOrDeriveApiCreds(n, faults) ==
    /\ Len(issued[n]) < MaxAcquire
    /\ \E fault1, fault2 \in {"none"} \cup faults :
        LET r == create_or_derive_api_creds(keysets, n, fault1, fault2) IN
        /\ keysets' = r.ks
        /\ call' = [Blank EXCEPT !.op = "create_or_derive_api_creds", !.nonce = n,
                                 !.out = r.out, !.reqs = r.reqs, !.api_creds = r.val]
        /\ issued' = IF r.out = "return" THEN [issued EXCEPT ![n] = Append(@, Get(r.val))]
                      ELSE issued
        /\ UNCHANGED <<creds, caches, nfetch, first, inflight, beyondCreds>>

\* the key sets a caller may hold
CredChoices == {SuppliedCreds} \cup {KeySet(n, 1) : n \in Nonces}

\* def set_api_creds(self, creds): self.creds = creds
SetApiCreds(c) ==
    /\ creds' = Some(c)
    /\ call' = [Blank EXCEPT !.op = "set_api_creds", !.api_creds = Some(c)]
    /\ UNCHANGED <<keysets, issued, caches, nfetch, first, inflight, beyondCreds>>

----------------------------------------------------------------------------
(* Async metadata lookups.  aget_tick_size, aget_neg_risk and              *)
(* aget_fee_rate_bps test the cache, and on a miss suspend on the request; *)
(* other operations of the client run until the response arrives, and the  *)
(* lookup then stores what it fetched.                                     *)

Bodies(kind) ==
    CASE kind = "tick" -> TickBodies
      [] kind = "neg"  -> NegBodies
      [] kind = "fee"  -> FeeBodies

\* the value a lookup stores from a 2xx response
Stored(kind, response) ==
    CASE kind = "tick" -> str(response.body)
      [] kind = "neg"  -> response.body
      [] kind = "fee"  -> IF response.body = None THEN 0 ELSE Get(response.body)

AName(kind) ==
    CASE kind = "tick" -> "aget_tick_size"
      [] kind = "neg"  -> "aget_neg_risk"
      [] kind = "fee"  -> "aget_fee_rate_bps"

\* aget_resume that replaces the whole map by the entry it fetched
aget_resume_clobber(cache, token_id, response, kind) ==
    IF response.kind # "ok"
    THEN [out |-> Raised(response), val |-> None, cache |-> cache,
          reqs |-> <<Req(Endpoint(kind), token_id, response)>>, gots |-> <<>>]
    ELSE LET c == Put(EmptyDict, token_id, Stored(kind, response)) IN
         [out |-> "return", val |-> c[token_id], cache |-> c,
          reqs |-> <<Req(Endpoint(kind), token_id, response)>>,
          gots |-> <<Got(kind, token_id, c[token_id])>>]

\* the part of an async lookup after its await
aget_resume(cache, token_id, response, kind) ==
    IF response.kind # "ok"
    THEN [out |-> Raised(response), val |-> None, cache |-> cache,
          reqs |-> <<Req(Endpoint(kind), token_id, response)>>, gots |-> <<>>]
    ELSE LET c == Put(cache, token_id, Stored(kind, response)) IN
         [out |-> "return", val |-> c[token_id], cache |-> c,
          reqs |-> <<Req(Endpoint(kind), token_id, response)>>,
          gots |-> <<Got(kind, token_id, c[token_id])>>]

SetCache(kind, c) ==
    /\ tick_sizes' = IF kind = "tick" THEN c ELSE tick_sizes
    /\ neg_risk' = IF kind = "neg" THEN c ELSE neg_risk
    /\ fee_rates' = IF kind = "fee" THEN c ELSE fee_rates

Task(kind, k) == SetToBag({<<kind, k>>})

\* the part of an async lookup up to its await: a hit returns, a miss sends the request
AGet(kind, k) ==
    IF k \in DOMAIN Cache(kind)
    THEN /\ call' = [Blank EXCEPT !.op = AName(kind), !.tok = k,
                                  ![kind] = Some(Cache(kind)[k])]
         /\ Account(<<>>, <<Got(kind, k, Cache(kind)[k])>>)
         /\ UNCHANGED <<caches, inflight, beyond>>
    ELSE /\ BagCardinality(inflight) < MaxTasks
         /\ inflight' = inflight (+) Task(kind, k)
         /\ call' = [Blank EXCEPT !.op = AName(kind), !.tok = k, !.out = "await"]
         /\ UNCHANGED <<caches, nfetch, first, beyond>>

AGetResume(kind, k) ==
    /\ BagIn(<<kind, k>>, inflight)
    /\ \E r \in Responses(Bodies(kind)) :
        LET res == aget_resume(Cache(kind), k, r, kind) IN
        /\ SetCache(kind, res.cache)
        /\ inflight' = inflight (-) Task(kind, k)
        /\ call' = [MetaCall(AName(kind), k, res) EXCEPT ![kind] = Returned(res)]
        /\ Account(res.reqs, res.gots)
        /\ UNCHANGED beyond

----------------------------------------------------------------------------
(* Async order operations, each run from its call to its return with no    *)
(* other operation of the client in between: every await is answered       *)
(* before anything else runs.                                              *)

\* if token_id in self.__tick_sizes: return self.__tick_sizes[token_id]
\* response = await self.http.aget(...); self.__tick_sizes[token_id] = str(...)
aget_tick_size(cache, token_id, response) ==
    IF token_id \in DOMAIN cache
    THEN [out |-> "return", val |-> cache[token_id], cache |-> cache, reqs |-> <<>>,
          gots |-> <<Got("tick", token_id, cache[token_id])>>]
    ELSE aget_resume(cache, token_id, response, "tick")

aget_neg_risk(cache, token_id, response) ==
    IF token_id \in DOMAIN cache
    THEN [out |-> "return", val |-> cache[token_id], cache |-> cache, reqs |-> <<>>,
          gots |-> <<Got("neg", token_id, cache[token_id])>>]
    ELSE aget_resume(cache, token_id, response, "neg")

aget_fee_rate_bps(cache, token_id, response) ==
    IF token_id \in DOMAIN cache
    THEN [out |-> "return", val |-> cache[token_id], cache |-> cache, reqs |-> <<>>,
          gots |-> <<Got("fee", token_id, cache[token_id])>>]
    ELSE aget_resume(cache, token_id, response, "fee")

aresolve_tick_size(cache, token_id, tick_size, response) ==
    LET g == aget_tick_size(cache, token_id, response) IN
    IF g.out # "return" THEN g
    ELSE IF tick_size # None
         THEN IF is_tick_size_smaller(Get(tick_size), g.val)
              THEN [g EXCEPT !.out = "InvalidTickSizeError", !.val = None]
              ELSE [g EXCEPT !.val = Get(tick_size)]
         ELSE g

\* aresolve_fee_rate that rejects every caller rate other than the market's
aresolve_fee_rate_strict(cache, token_id, user_fee_rate, response) ==
    LET g == aget_fee_rate_bps(cache, token_id, response) IN
    IF g.out # "return" THEN g
    ELSE IF user_fee_rate # None /\ Get(user_fee_rate) # g.val
         THEN [g EXCEPT !.out = "InvalidFeeRateError", !.val = None]
         ELSE g

aresolve_fee_rate(cache, token_id, user_fee_rate, response) ==
    LET g == aget_fee_rate_bps(cache, token_id, response) IN
    IF g.out # "return" THEN g
    ELSE IF /\ g.val > 0
            /\ user_fee_rate # None
            /\ Get(user_fee_rate) > 0
            /\ Get(user_fee_rate) # g.val
         THEN [g EXCEPT !.out = "InvalidFeeRateError", !.val = None]
         ELSE g

\* tick_size = await self.__aresolve_tick_size(order_args.token_id, options.tick_size if options else None)
ATickStep(s, options) ==
    {LET t == aresolve_tick_size(s.ts, s.order_args.token_id,
                                 IF options # None THEN Get(options).tick_size ELSE None, rt)
     IN  [s EXCEPT !.out = t.out, !.ts = t.cache, !.reqs = @ \o t.reqs,
                   !.gots = @ \o t.gots, !.tick = Returned(t)]
     : rt \in Responses(TickBodies)}

\* neg_risk = options.neg_risk if options and options.neg_risk is not None
\*            else await self.aget_neg_risk(order_args.token_id)
ANegStep(s, options) ==
    IF options # None /\ Get(options).neg_risk # None
    THEN {[s EXCEPT !.neg = Get(options).neg_risk]}
    ELSE {LET n == aget_neg_risk(s.nr, s.order_args.token_id, rn)
          IN  [s EXCEPT !.out = n.out, !.nr = n.cache, !.reqs = @ \o n.reqs,
                        !.gots = @ \o n.gots, !.neg = Returned(n)]
          : rn \in Responses(NegBodies)}

\* fee_rate_bps = await self.__aresolve_fee_rate(order_args.token_id, order_args.fee_rate_bps)
\* order_args.fee_rate_bps = fee_rate_bps
AFeeStep(s) ==
    {LET f == aresolve_fee_rate(s.fr, s.order_args.token_id, s.order_args.fee_rate_bps, rf)
     IN  [s EXCEPT !.out = f.out, !.fr = f.cache, !.reqs = @ \o f.reqs,
                   !.gots = @ \o f.gots, !.fee = Returned(f),
                   !.order_args.fee_rate_bps = IF f.out = "return" THEN Some(f.val) ELSE @]
     : rf \in Responses(FeeBodies)}

acreate_order(ts, nr, fr, order_args, options) ==
    LET tick(s) == ATickStep(s, options)
        price(s) == PriceStep(s)
        neg(s) == ANegStep(s, options)
        fee(s) == AFeeStep(s)
        sign(s) == SignStep(s, "create_order")
    IN  Then(Then(Then(Then(tick(Start(ts, nr, fr, order_args)), price), neg), fee), sign)

\* response = await self.http.aget(...); response.raise_for_status()
\* return OrderBookSummary(**response.json())
aget_order_book(token_id, response) ==
    LET reqs == <<Req("GET /book", token_id, response)>> IN
    IF response.kind # "ok" THEN [out |-> Raised(response), val |-> None, reqs |-> reqs]
    ELSE IF response.body = None THEN [out |-> "TypeError", val |-> None, reqs |-> reqs]
    ELSE [out |-> "return", val |-> response.body, reqs |-> reqs]

acalculate_market_price(token_id, side, amount, response) ==
    LET b == aget_order_book(token_id, response)
        fail(e) == [out |-> e, val |-> None, reqs |-> b.reqs, book |-> b.val]
        done(w) == [out |-> w.out, val |-> w.val, reqs |-> b.reqs, book |-> b.val]
    IN  IF b.out # "return" THEN fail(b.out)
        ELSE IF b.val = None THEN fail("MissingOrderbookError")
        ELSE IF side = "BUY"
             THEN IF Get(b.val).asks = None THEN fail("LiquidityError")
                  ELSE done(calculate_buy_market_price(Get(Get(b.val).asks), amount))
        ELSE IF side = "SELL"
             THEN IF Get(b.val).bids = None THEN fail("LiquidityError")
                  ELSE done(calculate_sell_market_price(Get(Get(b.val).bids), amount))
        ELSE fail("ValueError")

\* if order_args.price is None or order_args.price <= 0:
\*     order_args.price = await self.acalculate_market_price(...)
AMarketPriceStep(s) ==
    IF s.order_args.price = None \/ Get(s.order_args.price) <= 0
    THEN {LET m == acalculate_market_price(s.order_args.token_id, s.order_args.side,
                                           s.order_args.amount, rb)
          IN  [s EXCEPT !.out = m.out, !.reqs = @ \o m.reqs, !.book = m.book,
                        !.order_args.price = IF m.out = "return" THEN Some(m.val) ELSE @]
          : rb \in Responses(OrderBooks)}
    ELSE {s}

acreate_market_order(ts, nr, fr, order_args, options) ==
    LET tick(s) == ATickStep(s, options)
        market(s) == AMarketPriceStep(s)
        price(s) == PriceStep(s)
        neg(s) == ANegStep(s, options)
        fee(s) == AFeeStep(s)
        sign(s) == SignStep(s, "create_market_order")
    IN  Then(Then(Then(Then(Then(tick(Start(ts, nr, fr, order_args)),
            market), price), neg), fee), sign)

\* try: response = await self.http.apost(...); response.raise_for_status()
\*      return OrderPostResponse(**response.json())
\* except httpx.HTTPStatusError as exc: logger.warning(msg)
\*      error_json = exc.response.json(); print("Details:", error_json["error"]); return None
apost_order(order, response) ==
    LET reqs == <<Req("POST /order", order.token_id, response)>> IN
    IF response.kind = "transport"
    THEN [out |-> "TransportError", val |-> None, reqs |-> reqs, logs |-> <<>>]
    ELSE IF response.kind = "status"
    THEN IF response.error_body = "not json"
         THEN [out |-> "JSONDecodeError", val |-> None, reqs |-> reqs, logs |-> <<"warning">>]
         ELSE IF response.error_body = "json without error"
         THEN [out |-> "KeyError", val |-> None, reqs |-> reqs, logs |-> <<"warning">>]
         ELSE [out |-> "return", val |-> None, reqs |-> reqs, logs |-> <<"warning", "print">>]
    ELSE [out |-> "return", val |-> Some(response.entries), reqs |-> reqs, logs |-> <<>>]

\* for index, item in enumerate(response.json()): ... if resp.error_msg: logger.warning(...)
\* except httpx.HTTPStatusError as exc: logger.warning(...)
\*      print("Details:", exc.response.json()["error"]); return None
apost_orders(orders, response) ==
    LET reqs == <<Req("POST /orders", "", response)>> IN
    IF response.kind = "transport"
    THEN [out |-> "TransportError", val |-> None, reqs |-> reqs, logs |-> <<>>]
    ELSE IF response.kind = "status"
    THEN IF response.error_body = "not json"
         THEN [out |-> "JSONDecodeError", val |-> None, reqs |-> reqs, logs |-> <<"warning">>]
         ELSE IF response.error_body = "json without error"
         THEN [out |-> "KeyError", val |-> None, reqs |-> reqs, logs |-> <<"warning">>]
         ELSE [out |-> "return", val |-> None, reqs |-> reqs, logs |-> <<"warning", "print">>]
    ELSE [out |-> "return", val |-> Some(response.entries), reqs |-> reqs,
          logs |-> [i \in 1..Cardinality({j \in DOMAIN response.entries :
                                            response.entries[j] # ""}) |-> "warning"]]

\* the signed orders a caller holds for a batch, one at each price
BatchOf(k, prices) ==
    [i \in DOMAIN prices |->
        [SignerInput("create_order", LimitArgs(k, prices[i], Some(0)),
                     Some("0.01"), Some(FALSE)) EXCEPT !.idx = i]]

ACreateOrder(k, prices, fees, opts) ==
    \E p \in prices, u \in fees, o \in opts :
        LET a == LimitArgs(k, p, u) IN
        \E s \in acreate_order(tick_sizes, neg_risk, fee_rates, a, o) :
            Finish("acreate_order", k, <<a>>, o, s, <<s.order_args>>)

ACreateMarketOrder(k) ==
    \E sd \in Sides, am \in OrderAmounts, p \in MarketPrices, u \in OrderFees, o \in Options :
        LET a == MarketArgs(k, sd, am, p, u) IN
        \E s \in acreate_market_order(tick_sizes, neg_risk, fee_rates, a, o) :
            Finish("acreate_market_order", k, <<a>>, o, s, <<s.order_args>>)

APostOrder(k) ==
    \E rp \in PostResponses({1}) :
        LET r == apost_order(SomeSigned(k), rp) IN
        /\ call' = [Blank EXCEPT !.op = "apost_order", !.tok = k, !.out = r.out,
                                 !.reqs = r.reqs, !.posted = r.val, !.logs = r.logs]
        /\ UNCHANGED <<caches, nfetch, first, inflight, beyond>>

APostOrders(k) ==
    \E n \in 1..MaxOrders :
        \E prices \in [1..n -> BatchPrices], rp \in PostResponses(0..MaxOrders) :
            LET orders == BatchOf(k, prices)
                r == apost_orders(orders, rp)
            IN  /\ call' = [Blank EXCEPT !.op = "apost_orders", !.tok = k, !.out = r.out,
                                         !.signed = orders, !.reqs = r.reqs, !.posted = r.val,
                                         !.logs = r.logs, !.answer = rp.entries]
                /\ UNCHANGED <<caches, nfetch, first, inflight, beyond>>

----------------------------------------------------------------------------
(* Specifications *)

\* The three read-through lookups, called one after the other.
NextMeta ==
    \/ \E k \in Tokens : GetTickSize(k)
    \/ \E k \in Tokens : GetNegRisk(k)
    \/ \E k \in Tokens : GetFeeRateBps(k)

SpecMeta == Init /\ [][NextMeta]_vars

\* Tick-size and fee-rate resolution, called one after the other.
NextResolve ==
    \/ \E k \in Tokens : ResolveTickSize(k)
    \/ \E k \in Tokens : ResolveFeeRate(k)

SpecResolve == Init /\ [][NextResolve]_vars

\* Order construction and submission.  Lookups fill the caches in any way they
\* can be filled, and one order operation then runs on what they left; what an
\* order operation itself leaves in the caches is what lookups can leave.
Idle == call.op \in {"__init__", "get_tick_size", "get_neg_risk", "get_fee_rate_bps"}

Next ==
    \/ \E k \in OrderTokens : Idle /\ GetTickSize(k)
    \/ \E k \in OrderTokens : Idle /\ GetNegRisk(k)
    \/ \E k \in OrderTokens : Idle /\ GetFeeRateBps(k)
    \/ \E k \in OrderTokens : Idle /\ CreateOrder(k, LimitPrices, OrderFees, Options)
    \/ \E k \in OrderTokens : Idle /\ CreateMarketOrder(k)
    \/ \E k \in OrderTokens : Idle /\ PostOrder(k)
    \/ \E k \in OrderTokens : Idle /\ CreateAndPostOrder(k)
    \/ \E k \in OrderTokens : Idle /\ CreateAndPostMarketOrder(k)
    \/ \E k \in OrderTokens : Idle /\ CreateAndPostOrders(k)

Spec == Init /\ [][Next]_vars

\* create_order at every price, under every tick size of the market and of the caller
NextPrice == \E k \in OrderTokens : CreateOrder(k, AllPrices, {None}, TickOptions)

SpecPrice == Init /\ [][NextPrice]_vars

\* calculate_market_price on any side, amount and book
InitBook ==
    /\ Init!1 /\ Init!2 /\ Init!3 /\ Init!5 /\ Init!6 /\ Init!7 /\ Init!8 /\ Init!9 /\ Init!10 /\ Init!11 /\ Init!12
    /\ \E k \in OrderTokens, sd \in Sides, am \in Amounts :
        call = [Blank EXCEPT !.op = "calculate_market_price", !.tok = k, !.out = "call",
                             !.side = sd, !.amount = am]

SpecBook == InitBook /\ [][CalculateMarketPrice]_vars

\* The constructor, line 140: self.creds = creds if creds else self.create_or_derive_api_creds(),
\* against a server that may hold key sets of this signer already.  A constructor
\* that raises leaves no client.
InitCreds ==
    /\ Init!1 /\ Init!2 /\ Init!3 /\ Init!4 /\ Init!5 /\ Init!6 /\ Init!7 /\ Init!11 /\ Init!12
    /\ \E held \in SUBSET Nonces, supplied \in {None, Some(SuppliedCreds)} :
        LET ks == [n \in Nonces |-> IF n \in held THEN <<KeySet(n, 1)>> ELSE <<>>]
            r == create_or_derive_api_creds(ks, 0, "none", "none")
        IN  /\ supplied # None \/ r.out = "return"
            /\ creds = IF supplied # None THEN supplied ELSE r.val
            /\ keysets = IF supplied # None THEN ks ELSE r.ks
            /\ issued = [n \in Nonces |->
                            IF n = 0 /\ supplied = None THEN <<Get(r.val)>> ELSE <<>>]

\* Credential operations against a server whose requests can fail.
NextCreds ==
    \/ \E n \in Nonces : CreateOrDeriveApiCreds(n, Faults)
    \/ \E c \in CredChoices : SetApiCreds(c)

SpecCreds == InitCreds /\ [][NextCreds]_vars

\* Acquisition against a server that answers every request.
SpecAcquire == InitCreds /\ [][\E n \in Nonces : CreateOrDeriveApiCreds(n, {})]_vars

\* Cursor-based fetch-all against a server that may answer anything.
NextCursor ==
    \/ \E op \in CursorOps, c \in Opt({"MQ==", END_CURSOR}) :
          (op = "get_reward_markets" => c = None) /\ StartCursor(op, c)
    \/ CursorPage

SpecCursor == Init /\ [][NextCursor]_vars

\* Offset-based fetch-all against a server that holds a fixed list of items.
NextOffset ==
    \/ \E op \in OffsetOps, limit \in Limits, total \in 0..MaxItems : StartOffset(op, limit, total)
    \/ OffsetPage

SpecOffset == Init /\ [][NextOffset]_vars

\* One websocket channel held open by its caller.
NextStream == OpenChannel \/ Connected \/ Ready \/ Text \/ Dropped

SpecStream == Init /\ [][NextStream]_vars

\* batch submission of orders signed earlier
SpecBatch == Init /\ [][\E k \in OrderTokens : PostOrders(k)]_vars

\* Blocking and async lookups of one client, interleaved at the awaits.
NextAsync ==
    \/ \E k \in AsyncTokens : GetTickSize(k)
    \/ \E k \in AsyncTokens : GetNegRisk(k)
    \/ \E k \in AsyncTokens : GetFeeRateBps(k)
    \/ \E kind \in Kinds, k \in AsyncTokens : AGet(kind, k)
    \/ \E kind \in Kinds, k \in AsyncTokens : AGetResume(kind, k)

SpecAsync == Init /\ [][NextAsync]_vars

\* Order operations in both modes.  Blocking and async lookups, one at a time,
\* fill the caches, and one order operation of either mode then runs on them.
AtRest ==
    /\ inflight = EmptyBag
    /\ call.op \in {"__init__", "get_tick_size", "get_neg_risk", "get_fee_rate_bps",
                     "aget_tick_size", "aget_neg_risk", "aget_fee_rate_bps"}

NextModes ==
    \/ \E k \in OrderTokens : AtRest /\ GetTickSize(k)
    \/ \E k \in OrderTokens : AtRest /\ GetNegRisk(k)
    \/ \E k \in OrderTokens : AtRest /\ GetFeeRateBps(k)
    \/ \E kind \in Kinds, k \in OrderTokens : AtRest /\ AGet(kind, k)
    \/ \E kind \in Kinds, k \in OrderTokens : AGetResume(kind, k)
    \/ \E k \in OrderTokens : AtRest /\ CreateOrder(k, BatchPrices, OrderFees, Options)
    \/ \E k \in OrderTokens : AtRest /\ ACreateOrder(k, BatchPrices, OrderFees, Options)
    \/ \E k \in OrderTokens : AtRest /\ CreateMarketOrder(k)
    \/ \E k \in OrderTokens : AtRest /\ ACreateMarketOrder(k)
    \/ \E k \in OrderTokens : AtRest /\ PostOrder(k)
    \/ \E k \in OrderTokens : AtRest /\ APostOrder(k)
    \/ \E k \in OrderTokens : AtRest /\ PostOrders(k)
    \/ \E k \in OrderTokens : AtRest /\ APostOrders(k)

SpecModes == Init /\ [][NextModes]_vars

\* Async lookups of two tokens, gathered on one client.
GatherKinds == {"tick", "fee"}

NextGather ==
    \/ \E kind \in GatherKinds, k \in Tokens : AGet(kind, k)
    \/ \E kind \in GatherKinds, k \in Tokens : AGetResume(kind, k)

SpecGather == Init /\ [][NextGather]_vars

----------------------------------------------------------------------------
(* Properties *)

\* the last operation failed on its request, before any validation
FetchFailed == call.out \in {"HTTPStatusError", "TransportError"}

\* C3: fee-rate resolution with market rate m and caller rate u raises
\* InvalidFeeRateError exactly when m is nonzero, u is supplied and nonzero and
\* u differs from m; in every other case it returns m.
C3_FeeRateResolution ==
    (call.op = "resolve_fee_rate" /\ ~FetchFailed) =>
        LET m == fee_rates[call.tok]
            u == call.user_fee_rate
            conflict == m # 0 /\ u # None /\ Get(u) # 0 /\ Get(u) # m
        IN  /\ (call.out = "InvalidFeeRateError") <=> conflict
            /\ ~conflict => (call.out = "return" /\ call.fee = Some(m))

C3_Witness ==
    /\ call.op = "resolve_fee_rate"
    /\ call.out = "InvalidFeeRateError"
    /\ call.user_fee_rate = Some(30)
    /\ fee_rates[call.tok] = 50

\* C4: tick-size resolution with market minimum M raises InvalidTickSizeError when
\* the requested tick size is finer than M, returns the requested tick size when
\* it is equal to or coarser than M, and returns M when none is requested.
C4_TickSizeResolution ==
    (call.op = "resolve_tick_size" /\ ~FetchFailed) =>
        LET M == tick_sizes[call.tok]
            t == call.tick_size
        IN  /\ (t # None /\ float(Get(t)) < float(M)) => call.out = "InvalidTickSizeError"
            /\ (t # None /\ float(Get(t)) >= float(M)) =>
                    (call.out = "return" /\ call.tick = t)
            /\ t = None => (call.out = "return" /\ call.tick = Some(M))

C4_Witness ==
    /\ call.op = "resolve_tick_size"
    /\ call.out = "InvalidTickSizeError"
    /\ call.tick_size = Some("0.001")
    /\ tick_sizes[call.tok] = "0.01"

GetOps == {"get_tick_size", "get_neg_risk", "get_fee_rate_bps"}

KindOf(op) ==
    CASE op = "get_tick_size" -> "tick"
      [] op = "get_neg_risk" -> "neg"
      [] op = "get_fee_rate_bps" -> "fee"

\* the value the last lookup returned, None when it raised
Ret(c) ==
    CASE c.op = "get_tick_size" -> c.tick
      [] c.op = "get_neg_risk" -> c.neg
      [] c.op = "get_fee_rate_bps" -> c.fee

\* C5: in a sequence of blocking lookups at most one request per (kind, token_id)
\* is answered; once a lookup of a token has returned, every later lookup of it
\* issues no request and returns the value the first one returned.
C5_ReadThroughCache ==
    [][ /\ \A kind \in Kinds, k \in Tokens : nfetch'[kind][k] <= 1
        /\ call'.op \in GetOps =>
              /\ Len(call'.reqs) <= 1
              /\ call'.tok \in DOMAIN first[KindOf(call'.op)] =>
                    /\ call'.reqs = <<>>
                    /\ call'.out = "return"
                    /\ Ret(call') = Some(first[KindOf(call'.op)][call'.tok]) ]_vars

C5_Witness ==
    /\ call.op = "get_fee_rate_bps"
    /\ call.reqs = <<>>
    /\ call.out = "return"
    /\ call.fee = Some(50)
    /\ nfetch["fee"][call.tok] = 1

\* C6: once a tick size, neg-risk flag or fee rate is stored for a token_id, the
\* entry is never removed and never changes value, under every interleaving of
\* the blocking and async operations.
C6_CacheEntryFixed ==
    [][ \A kind \in Kinds : \A k \in DOMAIN Cache(kind) :
            /\ k \in DOMAIN Cache(kind)'
            /\ Cache(kind)'[k] = Cache(kind)[k] ]_vars

ValidationErrors ==
    {"InvalidTickSizeError", "InvalidPriceError", "InvalidFeeRateError", "LiquidityError"}

CreateAndPostOps ==
    {"create_and_post_order", "create_and_post_market_order", "create_and_post_orders"}

Posts(reqs) == {i \in DOMAIN reqs : reqs[i].ep \in {"POST /order", "POST /orders"}}

\* the tick size an order of the last call is held to: the caller's, else the market's
HeldTick(c) ==
    IF c.options # None /\ Get(c.options).tick_size # None
    THEN Get(Get(c.options).tick_size)
    ELSE tick_sizes[c.tok]

\* an order, as the last call left it, that passes every validation
Passes(c, o) ==
    /\ c.tok \in DOMAIN tick_sizes
    /\ float(HeldTick(c)) >= float(tick_sizes[c.tok])
    /\ o.price # None
    /\ Get(o.price) % float(HeldTick(c)) = 0
    /\ float(HeldTick(c)) <= Get(o.price)
    /\ Get(o.price) <= One - float(HeldTick(c))
    /\ c.tok \in DOMAIN fee_rates
    /\ o.fee_rate_bps = Some(fee_rates[c.tok])

\* C1: in create_and_post_order, create_and_post_market_order and
\* create_and_post_orders, a validation failure (tick size, price, fee rate,
\* liquidity) of the order, or of any order of the batch, is raised to the caller,
\* no POST is sent and the signer is not invoked for the failing order; so a
\* POST is sent only for orders that pass every validation.
C1_NoSubmissionAfterValidationError ==
    call.op \in CreateAndPostOps =>
        /\ call.out \in ValidationErrors =>
              /\ Posts(call.reqs) = {}
              /\ call.posted = None
              /\ \A i \in DOMAIN call.signed :
                    call.op = "create_and_post_orders" /\ call.signed[i].idx # call.failed
        /\ Posts(call.reqs) # {} =>
              /\ \A i \in DOMAIN call.after : Passes(call, call.after[i])
              /\ Len(call.signed) = Len(call.order_args)

C1_Witness ==
    /\ call.op = "create_and_post_orders"
    /\ call.out = "InvalidPriceError"
    /\ call.failed = 2
    /\ Len(call.signed) = 1
    /\ Posts(call.reqs) = {}

\* C2: for every tick size t and price p, create_order raises InvalidPriceError
\* unless p is an exact multiple of t with t <= p <= 1 - t, and does not raise it
\* when p is; with t = 0.01 it rejects 0.005 and 0.999 and accepts 0.50.
C2_PriceAcceptedIffOnGrid ==
    (call.op = "create_order" /\ call.tick # None) =>
        LET t == float(Get(call.tick))
            p == Get(call.order_args[1].price)
        IN  (call.out # "InvalidPriceError") <=> (p % t = 0 /\ t <= p /\ p <= One - t)

C2_Witness ==
    /\ call.op = "create_order"
    /\ call.tick = Some("0.01")
    /\ call.order_args[1].price = Some(9990)
    /\ call.out = "InvalidPriceError"

RECURSIVE SumSizes(_, _)
SumSizes(levels, I) ==
    IF I = {} THEN 0
    ELSE LET i == CHOOSE i \in I : TRUE IN levels[i].size + SumSizes(levels, I \ {i})

\* the levels a taker on this side consumes: asks for a BUY, bids for a SELL
Opposing(book, side) == IF side = "BUY" THEN book.asks ELSE book.bids

\* the size on offer at price q or better for a taker on this side
SizeWithin(levels, side, q) ==
    SumSizes(levels, {i \in DOMAIN levels :
        IF side = "BUY" THEN levels[i].price <= q ELSE levels[i].price >= q})

\* the size on offer on the side a taker consumes, none where the side is absent
Depth(book, side) ==
    IF Opposing(book, side) = None THEN 0
    ELSE SumSizes(Get(Opposing(book, side)), DOMAIN Get(Opposing(book, side)))

\* C7: market price discovery walks the asks upwards for a BUY and the bids
\* downwards for a SELL, and returns the price of the first level at which the
\* size accumulated reaches the amount: the size at that price or better covers
\* the amount, and the size at strictly better prices does not.
C7_MarketPriceIsLastLevelNeeded ==
    (call.op = "calculate_market_price" /\ call.book # None
        /\ Opposing(Get(call.book), call.side) # None) =>
        LET levels == Get(Opposing(Get(call.book), call.side)) IN
        /\ Depth(Get(call.book), call.side) >= call.amount => call.out = "return"
        /\ call.out = "return" =>
              \E i \in DOMAIN levels :
                  /\ call.price = Some(levels[i].price)
                  /\ SizeWithin(levels, call.side, levels[i].price) >= call.amount
                  /\ SizeWithin(levels, call.side, levels[i].price) - levels[i].size
                        < call.amount

C7_Witness ==
    /\ call.op = "calculate_market_price"
    /\ call.side = "BUY"
    /\ call.amount = 25
    /\ call.book # None
    /\ Get(call.book).asks = Some(<<[price |-> 4000, size |-> 10], [price |-> 4100, size |-> 20]>>)
    /\ call.price = Some(4100)

\* C8: a market order without a positive price, for more than the depth of the
\* side of the fetched book it consumes, raises LiquidityError: no price is
\* written into order_args, nothing is signed and nothing is submitted.
C8_NoPartialPricing ==
    (/\ call.op \in {"create_market_order", "create_and_post_market_order"}
     /\ call.book # None
     /\ Depth(Get(call.book), call.order_args[1].side) < call.order_args[1].amount) =>
        /\ call.out = "LiquidityError"
        /\ call.after[1].price = call.order_args[1].price
        /\ call.signed = <<>>
        /\ Posts(call.reqs) = {}

C8_Witness ==
    /\ call.op = "create_market_order"
    /\ call.order_args[1].price = None
    /\ call.order_args[1].amount = 31
    /\ call.book # None
    /\ Get(call.book).asks # None
    /\ call.order_args[1].side = "BUY"
    /\ call.out = "LiquidityError"

\* C9: calculate_market_price fails with MissingOrderbookError whenever the book
\* fetch produces no snapshot.
C9_MissingOrderbook ==
    (call.op = "calculate_market_price" /\ call.out # "call" /\ call.book = None) =>
        call.out = "MissingOrderbookError"

\* C10: post_order never raises on a failed submission: on every error status,
\* whatever the body, and on every transport failure it returns None and logs;
\* on success it returns the parsed acknowledgment.
C10_PostOrderNeverRaises ==
    call.op = "post_order" =>
        /\ call.out = "return"
        /\ call.reqs[1].status # "ok" => (call.posted = None /\ call.logs # <<>>)
        /\ call.reqs[1].status = "ok" => call.posted # None

\* C11: post_orders returns None, and does not raise, whenever the POST /orders
\* call itself fails, at the network level or with an HTTP error status.
C11_BatchFailureReturnsNone ==
    (call.op = "post_orders" /\ call.reqs[1].status # "ok") =>
        (call.out = "return" /\ call.posted = None)

\* C12: when POST /orders succeeds, post_orders returns one result per entry of
\* the server's answer, in the answer's order; an entry carrying an error
\* message is logged once and the entries before and after it are still returned.
C12_OneResultPerEntry ==
    (call.op = "post_orders" /\ call.reqs[1].status = "ok") =>
        /\ call.out = "return"
        /\ call.posted = Some(call.answer)
        /\ Len(call.logs) = Cardinality({i \in DOMAIN call.answer : call.answer[i] # ""})

C12_Witness ==
    /\ call.op = "post_orders"
    /\ Len(call.signed) = 3
    /\ call.answer = <<"", "rejected", "">>
    /\ call.posted # None
    /\ Len(Get(call.posted)) = 3
    /\ Get(call.posted)[1] = "" /\ Get(call.posted)[3] = ""
    /\ call.logs = <<"warning">>

\* C13: create_or_derive_api_creds first attempts creation; it issues the derive
\* call only when creation failed with a conflict, and then returns the derived
\* key set without surfacing the conflict; when creation succeeds it makes no
\* derive call.
C13_DeriveOnlyOnConflict ==
    call.op = "create_or_derive_api_creds" =>
        /\ call.reqs[1].ep = "POST /auth/api-key"
        /\ call.reqs[1].status = "ok" => (Len(call.reqs) = 1 /\ call.out = "return")
        /\ Len(call.reqs) = 2 => call.reqs[1].status = "conflict"
        /\ (Len(call.reqs) = 2 /\ call.reqs[2].status = "ok") =>
              (call.out = "return" /\ call.api_creds # None)

\* C14: against a server that creates a key set on the first create under a
\* nonce, answers later creates with a conflict and derives what it holds,
\* every create_or_derive_api_creds call returns a key set the server holds,
\* all calls under one nonce return the same key set, and the server never
\* holds more than one key set under a nonce.
C14_AcquisitionIdempotent ==
    /\ \A n \in Nonces :
        /\ Len(keysets[n]) <= 1
        /\ \A i \in DOMAIN issued[n] :
              issued[n][i] = issued[n][1] /\ keysets[n] = <<issued[n][i]>>
    /\ call.op = "create_or_derive_api_creds" => (call.out = "return" /\ call.api_creds # None)

C14_Witness ==
    /\ call.op = "create_or_derive_api_creds"
    /\ call.nonce = 1
    /\ Len(issued[1]) = 3
    /\ Len(call.reqs) = 2
    /\ call.reqs[1].status = "conflict"
    /\ call.api_creds = Some(issued[1][1])

\* C15: the credentials are those of the constructor for the life of the
\* client: no operation changes self.creds.
C15_CredsImmutable == [][creds' = creds]_vars

\* the fetch-all has returned
Fetched(ops) == pager.op \in ops /\ pager.out = "return"

CeilDiv(n, size) == (n + size - 1) \div size

\* C17: whatever the list endpoint answers, cursor pagination ends within
\* ceil(total_items / page_size) + 1 requests and never requests a cursor it
\* has requested before.
C17_CursorTermination ==
    pager.op \in CursorOps =>
        /\ \A i, j \in DOMAIN pager.cursors : i # j => pager.cursors[i] # pager.cursors[j]
        /\ Len(pager.cursors) <= CeilDiv(Len(pager.results), PageSize) + 1

\* C18: a short-page fetch-all requests the offsets 0, P, 2P, ... for the page
\* size P the caller requests, stops at the first page shorter than P, and
\* returns every item the server holds, in order.
C18_ShortPageFetchAll ==
    Fetched(OffsetOps) =>
        LET P == IF pager.limit = None THEN PageSize ELSE Get(pager.limit) IN
        /\ pager.offsets = [i \in 1..Len(pager.offsets) |-> (i - 1) * P]
        /\ Len(pager.offsets) = pager.total \div P + 1
        /\ pager.results = Items(1, pager.total)

\* the handshake a channel owes the server, from the arguments of the call
Expected(ch) ==
    Payload([ch EXCEPT !.subscriptions =
                IF ch.api \in LiveData /\ ch.creds # None /\ needs_auth(@)
                THEN [i \in DOMAIN @ |->
                        IF @[i].topic = "clob_user"
                        THEN [@[i] EXCEPT !.clob_auth = Some(model_dump(Get(ch.creds), FALSE))]
                        ELSE @[i]]
                ELSE @])

\* C19: on every connection of a channel, the first and every later one, the
\* client sends exactly one handshake before any event of that connection is
\* delivered, and it is the handshake of the first connection: the token ids,
\* the credentials, or the subscription list with clob_auth in its clob_user
\* entries.
C19_HandshakeOnEveryConnection ==
    /\ (chan.state = "subscribed" \/ chan.events > 0) => Len(chan.handshake) = 1
    /\ Len(chan.handshake) <= 1
    /\ \A i \in DOMAIN chan.handshake :
          chan.handshake[i] = chan.first[1] /\ chan.handshake[i] = Expected(chan)

C19_Witness ==
    /\ chan.api = "live_data_socket"
    /\ chan.conns = 2
    /\ chan.state = "subscribed"
    /\ chan.events = 1
    /\ Len(chan.handshake) = 1
    /\ Len(chan.handshake[1].subscriptions) = 2
    /\ chan.handshake[1].subscriptions[2].clob_auth = Some(model_dump(SuppliedCreds, FALSE))

\* C20: a channel whose caller keeps consuming it has no terminal state: no
\* inbound message stops it.
C20_NoTerminalState ==
    chan.state = "stopped" => chan.out = "AuthenticationRequiredError"

\* C21: in live_data_socket and alive_data_stream, a clob_user subscription
\* without credentials fails with AuthenticationRequiredError before any
\* network attempt: no connection is opened and no message is sent.
C21_AuthFailsBeforeNetwork ==
    /\ chan.out = "AuthenticationRequiredError" => (chan.conns = 0 /\ chan.first = <<>>)
    /\ (chan.api \in LiveData /\ needs_auth(chan.requested) /\ chan.creds = None) =>
          (chan.state = "stopped" /\ chan.out = "AuthenticationRequiredError")

\* C22: on every channel, with the default processors and with the async
\* parsers, a message whose discriminant is not a recognized value reaches
\* the caller as the untyped payload: it is not dropped and does not raise.
C22_UnknownPassedThrough ==
    chan.frame = "unknown" => (chan.state # "stopped" /\ chan.seen = "payload")

\* C23: a stream does not abort on a bad frame: text that is not JSON is
\* yielded as a raw-text event, and JSON of the wrong shape for its
\* discriminant, or that is not an object, is yielded as a raw event.
C23_StreamSurvivesBadFrame ==
    (chan.api \in Streams /\ chan.frame \in {"not json", "invalid", "list", "untyped"}) =>
        /\ chan.out = ""
        /\ chan.seen \in {"raw text", "payload", "typed"}

\* C28: the live-data handshake carries the requested subscriptions in their
\* order, each clob_user entry with clob_auth added and every other entry as
\* requested, and the caller's own subscription dicts are left as they were.
C28_InjectionOnlyIntoClobUser ==
    /\ \A i \in DOMAIN chan.requested : chan.requested[i].clob_auth = None
    /\ \A h \in DOMAIN chan.handshake :
        LET sent == chan.handshake[h].subscriptions IN
        chan.api \in LiveData =>
            /\ Len(sent) = Len(chan.requested)
            /\ \A i \in DOMAIN sent :
                IF chan.requested[i].topic = "clob_user"
                THEN /\ sent[i].topic = "clob_user"
                     /\ sent[i].clob_auth = Some(model_dump(Get(chan.creds), FALSE))
                ELSE sent[i] = chan.requested[i]

C28_Witness ==
    /\ chan.api = "alive_data_stream"
    /\ chan.requested = <<Sub("activity"), Sub("clob_user")>>
    /\ Len(chan.handshake) = 1
    /\ chan.handshake[1].subscriptions[1] = Sub("activity")
    /\ chan.handshake[1].subscriptions[2].clob_auth # None

\* the cache a metadata lookup reads and writes
CacheOf(op, ts, nr, fr) ==
    CASE op = "get_tick_size" -> ts
      [] op = "get_neg_risk" -> nr
      [] op = "get_fee_rate_bps" -> fr

MetaOps == {"get_tick_size", "get_neg_risk", "get_fee_rate_bps"}

\* C29: a metadata lookup whose fetch is answered with an HTTP error status
\* raises, leaves the three caches as they were with no entry for the token, and
\* the next lookup of the same kind and token sends a request again.
C29_FailedFetchStoresNothing ==
    [][/\ (call'.op \in MetaOps /\ call'.out = "HTTPStatusError") =>
            /\ <<tick_sizes, neg_risk, fee_rates>>' = <<tick_sizes, neg_risk, fee_rates>>
            /\ call'.tok \notin DOMAIN CacheOf(call'.op, tick_sizes', neg_risk', fee_rates')
       /\ (/\ call.op \in MetaOps /\ call.out = "HTTPStatusError"
           /\ call'.op = call.op /\ call'.tok = call.tok) =>
            /\ Len(call'.reqs) = 1
            /\ call'.reqs[1].ep = call.reqs[1].ep /\ call'.reqs[1].tok = call.tok]_vars

\* a lookup of one token failed on its fetch while the other token's entries are held
C29_Witness ==
    /\ call.op \in MetaOps /\ call.out = "HTTPStatusError" /\ Len(call.reqs) = 1
    /\ call.tok \notin DOMAIN CacheOf(call.op, tick_sizes, neg_risk, fee_rates)
    /\ \E k \in Tokens \ {call.tok} :
          k \in DOMAIN tick_sizes /\ k \in DOMAIN neg_risk /\ k \in DOMAIN fee_rates

\* the requests for an order book among reqs
BookFetches(reqs) == {i \in DOMAIN reqs : reqs[i].ep = "GET /book"}

\* the caller of the last operation passed a price above zero
PricePassed == call.order_args[1].price # None /\ Get(call.order_args[1].price) > 0

\* C30: create_market_order, once the tick size is resolved, requests the order
\* book once when the caller's price is None or not above zero and never when it
\* is above zero; a price above zero is the price validated against the tick size
\* and the price handed to the signer.
C30_BookFetchedIffNoPrice ==
    call.op = "create_market_order" =>
        /\ Cardinality(BookFetches(call.reqs)) <= 1
        /\ call.tick = None => BookFetches(call.reqs) = {}
        /\ call.tick # None => (BookFetches(call.reqs) # {} <=> ~PricePassed)
        /\ (call.tick # None /\ PricePassed) =>
              /\ call.book = None
              /\ call.out = "InvalidPriceError" <=>
                    ~price_valid(Get(call.order_args[1].price), Get(call.tick))
              /\ call.after[1].price = call.order_args[1].price
              /\ \A i \in DOMAIN call.signed :
                    call.signed[i].price = call.order_args[1].price

\* a market order with a price was signed at that price without a book request
C30_Witness ==
    /\ call.op = "create_market_order"
    /\ PricePassed
    /\ Len(call.signed) = 1
    /\ call.signed[1].price = Some(5000)
    /\ Len(call.reqs) = 3

\* (C30) a market order with a price of zero was priced from one book request
C30_WitnessFetched ==
    /\ call.op = "create_market_order"
    /\ call.order_args[1].price = Some(0)
    /\ Cardinality(BookFetches(call.reqs)) = 1
    /\ Len(call.signed) = 1
    /\ call.signed[1].price = Some(4100)

\* the price and fee rate of an order intent
Filled(a) == <<a.price, a.fee_rate_bps>>

\* C27: when create_order or create_market_order raises a validation error
\* (InvalidTickSizeError, InvalidPriceError, InvalidFeeRateError, LiquidityError),
\* the caller's order_args holds the price and the fee_rate_bps it held before the call.
C27_ArgsKeptOnValidationError ==
    (/\ call.op \in {"create_order", "create_market_order"}
     /\ call.out \in {"InvalidTickSizeError", "InvalidPriceError",
                       "InvalidFeeRateError", "LiquidityError"}) =>
        Filled(call.after[1]) = Filled(call.order_args[1])

\* (C27) a market order passed without a price and with a fee rate of 30 for a
\* market whose fee rate is 50 raised InvalidFeeRateError after the price computed
\* from the book was written into the caller's order_args
C27_PriceWrittenThenRaised ==
    /\ call.op = "create_market_order"
    /\ call.out = "InvalidFeeRateError"
    /\ call.order_args[1].price = None
    /\ call.order_args[1].fee_rate_bps = Some(30)
    /\ call.after[1].price = Some(4100)
    /\ call.signed = <<>>

\* the place of a request in the steps of an order's construction
StepOf(ep) ==
    CASE ep = "GET /tick-size" -> 1
      [] ep = "GET /book" -> 2
      [] ep = "GET /neg-risk" -> 4
      [] ep = "GET /fee-rate" -> 5
      [] OTHER -> 7

\* C26: create_order and create_market_order resolve the tick size, then (market
\* orders without a price above zero) price the order from the book, then validate
\* the price, then resolve the neg-risk flag, then the fee rate, then call the
\* signer: requests go out in that order, a request that failed is the last one,
\* and a step that did not succeed leaves every later step undone.
C26_StepsInOrder ==
    call.op \in {"create_order", "create_market_order"} =>
        /\ \A i, j \in DOMAIN call.reqs : i < j => StepOf(call.reqs[i].ep) < StepOf(call.reqs[j].ep)
        /\ \A i \in DOMAIN call.reqs : call.reqs[i].status # "ok" => i = Len(call.reqs)
        /\ call.tick = None => call.book = None /\ call.neg = None /\ Len(call.reqs) <= 1
        /\ (call.op = "create_market_order" /\ call.tick # None /\ ~PricePassed /\ call.book = None) =>
              call.neg = None /\ call.after[1].price = call.order_args[1].price
        /\ call.neg # None =>
              /\ call.tick # None
              /\ call.after[1].price # None
              /\ price_valid(Get(call.after[1].price), Get(call.tick))
        /\ call.out \in {"InvalidTickSizeError", "InvalidPriceError", "LiquidityError"} =>
              call.neg = None
        /\ call.neg = None => call.fee = None
        /\ call.fee # None => call.neg # None
        /\ call.fee = None => call.signed = <<>>
        /\ call.out # "return" => call.signed = <<>>
        /\ call.out = "return" =>
              /\ Len(call.signed) = 1
              /\ call.signed[1].tick_size = call.tick /\ call.signed[1].neg_risk = call.neg
              /\ call.signed[1].fee_rate_bps = call.fee
              /\ call.signed[1].price = call.after[1].price

\* a market order went through every step: four requests in order and one signature
C26_Witness ==
    /\ call.op = "create_market_order"
    /\ call.out = "return"
    /\ Len(call.reqs) = 4
    /\ call.reqs[2].ep = "GET /book"
    /\ call.reqs[4].ep = "GET /fee-rate"
    /\ Len(call.signed) = 1

\* (C26) a market order priced off the grid stopped before the neg-risk request
C26_WitnessStopped ==
    /\ call.op = "create_market_order"
    /\ call.out = "InvalidPriceError"
    /\ call.book # None
    /\ call.options = None
    /\ Len(call.reqs) = 2

\* the entry of token j in the map of a kind is added, removed or changed by this step
Written(kind, j) ==
    \/ (j \in DOMAIN Cache(kind)) # (j \in DOMAIN Cache(kind)')
    \/ j \in DOMAIN Cache(kind) /\ j \in DOMAIN Cache(kind)' /\ Cache(kind)'[j] # Cache(kind)[j]

\* C25: under every interleaving of async lookups of two tokens, lookups of one
\* token that both missed may each fetch, and an entry of token j is written only
\* by a lookup of j on its return from a request for j that the server answered,
\* with the value that lookup got: a write for a token never adds, removes or
\* changes the entry of another token, and no entry holds anything else.
C25_WritesOnlyOwnEntry ==
    [][\A kind \in Kinds, j \in Tokens :
          Written(kind, j) =>
              /\ call'.op = AName(kind) /\ call'.tok = j /\ call'.out = "return"
              /\ call'.reqs = <<[ep |-> Endpoint(kind), tok |-> j, status |-> "ok"]>>
              /\ j \in DOMAIN Cache(kind)'
              /\ Some(Cache(kind)'[j]) = call'[kind]]_vars

\* two lookups of one token both fetched, the second overwriting what the first
\* stored, while the entry of the other token stayed as it was stored
C25_Witness ==
    \E kind \in GatherKinds, k \in Tokens, j \in Tokens :
        /\ j # k
        /\ nfetch[kind][k] = 2
        /\ k \in DOMAIN Cache(kind) /\ Cache(kind)[k] # first[kind][k]
        /\ j \in DOMAIN Cache(kind) /\ Cache(kind)[j] = first[kind][j]
        /\ call.op = AName(kind) /\ call.tok = k /\ call.out = "return"

\* the progress record s is what this step did: outcome, requests, caches, the
\* caller's order_args, the values resolved and what the signer was given
SameCreate(s) ==
    /\ s.out = call'.out /\ s.reqs = call'.reqs
    /\ s.ts = tick_sizes' /\ s.nr = neg_risk' /\ s.fr = fee_rates'
    /\ <<s.order_args>> = call'.after
    /\ s.tick = call'.tick /\ s.neg = call'.neg /\ s.fee = call'.fee /\ s.book = call'.book
    /\ s.signed = call'.signed

\* the result r is what this step did: outcome, request, value returned, and logs,
\* with the caches left alone
SamePost(r) ==
    /\ r.out = call'.out /\ r.reqs = call'.reqs /\ r.val = call'.posted /\ r.logs = call'.logs
    /\ UNCHANGED caches

\* the answers to a POST that carry the entries the last call was answered with
PostAnswers == {rp \in PostResponses(0..MaxOrders) : rp.entries = call'.answer}

\* C24: each order operation and its async variant are equivalent.  Whatever one
\* of create_order / acreate_order, create_market_order / acreate_market_order,
\* post_order / apost_order, post_orders / apost_orders did in a step, the other,
\* run on the caches, arguments and options that step began with, does too: the
\* same requests in the same order, the same error or result, the same order_args
\* and signer input, and the same caches afterwards, whichever mode stored the
\* entries the step found.
C24_ModesEquivalent ==
    [][/\ call'.op = "acreate_order" =>
            \E s \in create_order(tick_sizes, neg_risk, fee_rates,
                                   call'.order_args[1], call'.options) : SameCreate(s)
       /\ call'.op = "create_order" =>
            \E s \in acreate_order(tick_sizes, neg_risk, fee_rates,
                                    call'.order_args[1], call'.options) : SameCreate(s)
       /\ call'.op = "acreate_market_order" =>
            \E s \in create_market_order(tick_sizes, neg_risk, fee_rates,
                                          call'.order_args[1], call'.options) : SameCreate(s)
       /\ call'.op = "create_market_order" =>
            \E s \in acreate_market_order(tick_sizes, neg_risk, fee_rates,
                                           call'.order_args[1], call'.options) : SameCreate(s)
       /\ call'.op = "apost_order" =>
            \E rp \in PostResponses({1}) : SamePost(post_order(SomeSigned(call'.tok), rp))
       /\ call'.op = "post_order" =>
            \E rp \in PostResponses({1}) : SamePost(apost_order(SomeSigned(call'.tok), rp))
       /\ call'.op = "apost_orders" =>
            \E rp \in PostAnswers : SamePost(post_orders(call'.signed, rp))
       /\ call'.op = "post_orders" =>
            \E rp \in PostAnswers : SamePost(apost_orders(call'.signed, rp))]_vars

\* an async market order found the three entries in the caches and went on to
\* fetch the book, price the order and have it signed
C24_Witness ==
    /\ call.op = "acreate_market_order"
    /\ call.options = None
    /\ call.out = "return"
    /\ Len(call.reqs) = 1 /\ call.reqs[1].ep = "GET /book"
    /\ Len(call.signed) = 1
    /\ call.signed[1].fee_rate_bps = Some(fee_rates[call.tok])
    /\ call.after[1].price = Some(4100)

\* (C24) a blocking limit order raised InvalidFeeRateError on cached entries
C24_WitnessBlocking ==
    /\ call.op = "create_order"
    /\ call.out = "InvalidFeeRateError"
    /\ call.reqs = <<>>
    /\ call.order_args[1].fee_rate_bps = Some(30)
    /\ fee_rates[call.tok] = 50

====
